---- MODULE Spec2Model ----
(***************************************************************************)
(* Model of the virtual register file (ic_psd2/src/mock_driver.py) and of  *)
(* the script interpreter / trace exporter (ic_psd2/src/mock_executor.py). *)
(***************************************************************************)
EXTENDS Integers, Sequences, FiniteSets, TLC

VARIABLES xml_state, reg_map, i2c_mem, write_log, last, ret, exported, manager

vars == <<xml_state, reg_map, i2c_mem, write_log, last, ret, exported, manager>>

(***************************************************************************)
(* Bounds of the exploration.                                              *)
(***************************************************************************)
\* longest write trace the driver-level exploration lets accumulate
MaxLog == 2

(***************************************************************************)
(* Python integers: bitwise operators on a two's complement window that is *)
(* wide enough for every operand the model produces.                       *)
(***************************************************************************)
IntBits == 24

TwoW == 2 ^ IntBits

ToU(x) == x % TwoW

ToS(u) == IF u >= TwoW \div 2 THEN u - TwoW ELSE u

RECURSIVE BitAndN(_, _)
BitAndN(a, b) ==
    IF a = 0 \/ b = 0 THEN 0
    ELSE (a % 2) * (b % 2) + 2 * BitAndN(a \div 2, b \div 2)

RECURSIVE BitOrN(_, _)
BitOrN(a, b) ==
    IF a = 0 THEN b
    ELSE IF b = 0 THEN a
    ELSE (IF a % 2 = 1 \/ b % 2 = 1 THEN 1 ELSE 0) + 2 * BitOrN(a \div 2, b \div 2)

\* Python  a & b
PyAnd(a, b) == ToS(BitAndN(ToU(a), ToU(b)))

\* Python  a | b
PyOr(a, b) == ToS(BitOrN(ToU(a), ToU(b)))

\* Python  ~a
PyNot(a) == (-a) - 1

\* Python  a << n   (n >= 0)
Shl(a, n) == a * (2 ^ n)

\* Python  a >> n   (n >= 0, floor division)
Shr(a, n) == a \div (2 ^ n)

\* Python  int.bit_length()
RECURSIVE bit_length(_)
bit_length(x) ==
    IF x = 0 THEN 0
    ELSE IF x < 0 THEN bit_length(-x)
    ELSE 1 + bit_length(x \div 2)

\* (mask & -mask).bit_length() - 1
mask_lsb_pos(mask) == bit_length(PyAnd(mask, -mask)) - 1

(***************************************************************************)
(* Python dict with insertion order: a sequence of <<key, value>> pairs    *)
(* with distinct keys.                                                     *)
(***************************************************************************)
DictHas(d, k) == \E i \in 1..Len(d) : d[i][1] = k

DictGet(d, k, dflt) ==
    IF DictHas(d, k)
    THEN d[CHOOSE i \in 1..Len(d) : d[i][1] = k][2]
    ELSE dflt

\* d[k] = v : an existing key keeps its position, a new key goes last
DictPut(d, k, v) ==
    IF DictHas(d, k)
    THEN [i \in 1..Len(d) |-> IF d[i][1] = k THEN <<k, v>> ELSE d[i]]
    ELSE Append(d, <<k, v>>)

\* i2c_mem / reg_map : a dict whose order is never observed
MapPut(m, k, v) == [x \in DOMAIN m \cup {k} |-> IF x = k THEN v ELSE m[x]]

EmptyMap == [x \in {} |-> 0]

(***************************************************************************)
(* Definition sources (xml_state.json).  A mask / shift literal is the     *)
(* sequence of tokens the regular expression scans: an address:value pair  *)
(* <<addr, val>> or a fragment <<>> that matches nothing.  A default value   *)
(* is <<n>> for a numeral int() accepts and <<>> for text it rejects.      *)
(***************************************************************************)
Field(cap, dflt, mask, shift) ==
    [caption |-> cap, defaultvalue |-> dflt, mask |-> mask, shift |-> shift]

\* definition source with the byte shift equal to the mask's bit position
XmlAligned ==
    << [name |-> "AG",
        field |-> << Field("i2c_audio_format", <<3>>, << <<1536, 56>> >>, << <<1536, 3>> >>),
                     Field("lo3", <<0>>, << <<1537, 7>> >>, << <<1537, 0>> >>),
                     Field("hi1", <<1>>, << <<1537, 128>> >>, << <<1537, 7>> >>) >>],
       [name |-> "P9",
        field |-> << Field("wide", <<0>>, << <<2306, 255>>, <<2307, 3>> >>,
                                      << <<2306, 0>>, <<2307, -8>> >>) >>] >>

\* definition source with shift 0 for an inner field, a missing shift
\* literal, a field without caption and a malformed default value
XmlPlain ==
    << [name |-> "AG",
        field |-> << Field("i2c_audio_format", <<3>>, << <<1536, 56>> >>, << <<1536, 0>> >>),
                     Field("lo3", <<>>, << <<>>, <<1537, 7>> >>, << >>),
                     Field("", <<1>>, << <<1537, 64>> >>, << <<1537, 6>> >>),
                     Field("hi1", <<1>>, << <<1537, 128>> >>, << <<1537, 7>> >>) >>] >>

XmlStates == {XmlAligned, XmlPlain}

(***************************************************************************)
(* MockDriver                                                              *)
(***************************************************************************)
\* MockDriver.__init__
NewDriver == [i2c_mem |-> EmptyMap, write_log |-> <<>>, reg_map |-> EmptyMap]

\* re.findall + dict assignment in scan order
RECURSIVE parse_hex_dict(_)
parse_hex_dict(s) ==
    IF s = <<>> THEN <<>>
    ELSE LET rest == parse_hex_dict(SubSeq(s, 1, Len(s) - 1))
             tok  == s[Len(s)]
         IN  IF Len(tok) = 2 THEN DictPut(rest, tok[1], tok[2]) ELSE rest

\* int(field["default"], 0) with the except branch
default_int(dflt) == IF Len(dflt) = 1 THEN dflt[1] ELSE 0

addr1_of(addr) == PyAnd(Shr(addr, 8), 255)

addr2_of(addr) == PyAnd(addr, 255)

\* one iteration of the loop of _apply_field_default
apply_default_byte(mem, field, i) ==
    LET addr  == field.masks[i][1]
        mask  == field.masks[i][2]
        shift == DictGet(field.shifts, addr, 0)
        dv    == default_int(field.default)
        byte_contrib == IF shift < 0 THEN PyAnd(Shr(dv, -shift), mask)
                        ELSE PyAnd(Shl(dv, shift), mask)
        key   == <<addr1_of(addr), addr2_of(addr)>>
        current_val == IF key \in DOMAIN mem THEN mem[key] ELSE 0
    IN  MapPut(mem, key, PyOr(PyAnd(current_val, PyNot(mask)), byte_contrib))

RECURSIVE apply_field_default_upto(_, _, _)
apply_field_default_upto(mem, field, n) ==
    IF n = 0 THEN mem
    ELSE apply_default_byte(apply_field_default_upto(mem, field, n - 1), field, n)

apply_field_default(mem, field) ==
    apply_field_default_upto(mem, field, Len(field.masks))

\* body of the loop over the fields of one interface
load_field(d, if_name, f) ==
    IF f.caption = "" THEN d
    ELSE LET field_info == [interface |-> if_name, caption |-> f.caption,
                            default |-> f.defaultvalue,
                            masks |-> parse_hex_dict(f.mask),
                            shifts |-> parse_hex_dict(f.shift)]
         IN  [d EXCEPT !.reg_map = MapPut(@, <<if_name, f.caption>>, field_info),
                       !.i2c_mem = apply_field_default(@, field_info)]

RECURSIVE load_fields(_, _, _, _)
load_fields(d, if_name, fields, n) ==
    IF n = 0 THEN d
    ELSE load_field(load_fields(d, if_name, fields, n - 1), if_name, fields[n])

RECURSIVE load_interfaces(_, _, _)
load_interfaces(d, interfaces, n) ==
    IF n = 0 THEN d
    ELSE LET prev == load_interfaces(d, interfaces, n - 1)
         IN  load_fields(prev, interfaces[n].name, interfaces[n].field,
                         Len(interfaces[n].field))

init_from_xml_state(d, xml) == load_interfaces(d, xml, Len(xml))

read_reg(d, a1, a2) ==
    IF <<a1, a2>> \in DOMAIN d.i2c_mem THEN d.i2c_mem[<<a1, a2>>] ELSE 0

\* write_reg that records the newest write first
write_reg_prepend(d, a1, a2, value) ==
    LET v == PyAnd(value, 255)
    IN  [d EXCEPT !.i2c_mem = MapPut(@, <<a1, a2>>, v),
                  !.write_log = <<<<a1, a2, v>>>> \o @]

\* write_reg that records the value it was given
write_reg_log_given(d, a1, a2, value) ==
    [d EXCEPT !.i2c_mem = MapPut(@, <<a1, a2>>, PyAnd(value, 255)),
              !.write_log = Append(@, <<a1, a2, value>>)]

\* write_reg that stores the value as given
write_reg_unmasked(d, a1, a2, value) ==
    [d EXCEPT !.i2c_mem = MapPut(@, <<a1, a2>>, value),
              !.write_log = Append(@, <<a1, a2, value>>)]

write_reg(d, a1, a2, value) ==
    LET v == PyAnd(value, 255)
    IN  [d EXCEPT !.i2c_mem = MapPut(@, <<a1, a2>>, v),
                  !.write_log = Append(@, <<a1, a2, v>>)]

\* write_bits that forgets the bits outside the mask
write_bits_clobber(d, a1, a2, mask, value) ==
    write_reg(d, a1, a2, PyAnd(value, mask))

write_bits(d, a1, a2, mask, value) ==
    LET old_val == read_reg(d, a1, a2)
        new_val == PyOr(PyAnd(old_val, PyNot(mask)), PyAnd(value, mask))
    IN  write_reg(d, a1, a2, new_val)

\* bits_to_write that takes the low bits of the value for every byte
bits_to_write_low(value, mask, shift) ==
    PyAnd(Shl(value, mask_lsb_pos(mask)), mask)

\* bits_to_write of reg_write for one (addr, mask) item
bits_to_write(value, mask, shift) ==
    IF shift < 0
    THEN PyAnd(Shl(Shr(value, -shift), mask_lsb_pos(mask)), mask)
    ELSE PyAnd(Shl(Shl(value, shift), mask_lsb_pos(mask)), mask)

\* reg_write iteration that skips a byte whose value would not change
reg_write_byte_skip(d, field, value, i) ==
    LET addr  == field.masks[i][1]
        mask  == field.masks[i][2]
        shift == DictGet(field.shifts, addr, 0)
        a1    == addr1_of(addr)
        a2    == addr2_of(addr)
        old   == IF <<a1, a2>> \in DOMAIN d.i2c_mem THEN d.i2c_mem[<<a1, a2>>] ELSE 0
        new   == PyOr(PyAnd(old, PyNot(mask)),
                      PyAnd(bits_to_write(value, mask, shift), mask))
    IN  IF new = old THEN d
        ELSE [d EXCEPT !.i2c_mem = MapPut(@, <<a1, a2>>, PyAnd(new, 255)),
                       !.write_log = Append(@, <<a1, a2, PyAnd(new, 255)>>)]

\* one iteration of the loop of reg_write
reg_write_byte(d, field, value, i) ==
    LET addr  == field.masks[i][1]
        mask  == field.masks[i][2]
        shift == DictGet(field.shifts, addr, 0)
    IN  write_bits(d, addr1_of(addr), addr2_of(addr), mask,
                   bits_to_write(value, mask, shift))

RECURSIVE reg_write_upto(_, _, _, _)
reg_write_upto(d, field, value, n) ==
    IF n = 0 THEN d
    ELSE reg_write_byte(reg_write_upto(d, field, value, n - 1), field, value, n)

\* reg_write that returns silently for a register it does not know
reg_write_lenient(d, if_name, reg_name, value) ==
    IF <<if_name, reg_name>> \notin DOMAIN d.reg_map
    THEN [d |-> d, err |-> "ok"]
    ELSE LET field == d.reg_map[<<if_name, reg_name>>]
         IN  [d |-> reg_write_upto(d, field, value, Len(field.masks)),
              err |-> "ok"]

\* reg_write : the driver afterwards and the exception raised, if any
reg_write(d, if_name, reg_name, value) ==
    IF <<if_name, reg_name>> \notin DOMAIN d.reg_map
    THEN [d |-> d, err |-> "ValueError"]
    ELSE LET field == d.reg_map[<<if_name, reg_name>>]
         IN  [d |-> reg_write_upto(d, field, value, Len(field.masks)),
              err |-> "ok"]

\* field_val of reg_read for one (addr, mask) item
decode_byte(byte_val, mask, shift) ==
    LET field_val == PyAnd(byte_val, mask)
    IN  IF shift < 0 THEN Shl(field_val, -shift) ELSE Shr(field_val, shift)

RECURSIVE reg_read_upto(_, _, _)
reg_read_upto(d, field, n) ==
    IF n = 0 THEN 0
    ELSE LET addr  == field.masks[n][1]
             mask  == field.masks[n][2]
             shift == DictGet(field.shifts, addr, 0)
             byte_val == read_reg(d, addr1_of(addr), addr2_of(addr))
         IN  PyOr(reg_read_upto(d, field, n - 1), decode_byte(byte_val, mask, shift))

\* reg_read : the value returned and the exception raised, if any
reg_read(d, if_name, reg_name) ==
    IF <<if_name, reg_name>> \notin DOMAIN d.reg_map
    THEN [ret |-> 0, err |-> "ValueError"]
    ELSE LET field == d.reg_map[<<if_name, reg_name>>]
         IN  [ret |-> reg_read_upto(d, field, Len(field.masks)), err |-> "ok"]

get_write_log(d) == d.write_log

clear_write_log(d) == [d EXCEPT !.write_log = <<>>]

(***************************************************************************)
(* The driver as state.  last is the call that was made and the exception *)
(* it raised; ret is what it returned: <<>> for None, <<n>> for an int,    *)
(* <<"list", l>> for a list and <<"path", p>> for a file path.             *)
(***************************************************************************)
Driver == [i2c_mem |-> i2c_mem, write_log |-> write_log, reg_map |-> reg_map]

SetDriver(d) ==
    /\ i2c_mem' = d.i2c_mem
    /\ write_log' = d.write_log
    /\ reg_map' = d.reg_map

Call(op, args, err) == [op |-> op, args |-> args, err |-> err]

\* byte addresses used by raw accesses; <<16, 0>> is never seeded
RawAddrs == {<<6, 1>>, <<16, 0>>}

\* byte addresses written by raw writes
RawWriteAddrs == {<<16, 0>>}

\* byte value used by raw writes (wider than a byte)
RawValues == {453}

\* register writes that are made: values that fit the register (5 in a
\* 3-bit field, 275 in the 10-bit one), a value wider than it (275 in lo3) and
\* a register that is in no definition source
RegWriteCalls == {<<"AG", "i2c_audio_format", 5>>, <<"AG", "lo3", 5>>,
                  <<"AG", "lo3", 275>>, <<"AG", "hi1", 1>>,
                  <<"P9", "wide", 275>>, <<"AG", "nosuch", 5>>}

\* (page, register) pairs named by accesses, known and unknown
RegKeys == {<<c[1], c[2]>> : c \in RegWriteCalls}

(***************************************************************************)
(* DeviceManager (ic_psd3/src/hw_bridge/src/hw_bridge/device_manager.py).  *)
(* _configs and _devices are dicts by device name, kept in insertion       *)
(* order; a configuration is its driver type and a device is the driver    *)
(* type it was created from.                                               *)
(***************************************************************************)
\* del d[k]
DictDel(d, k) ==
    LET Other(p) == p[1] # k
    IN  SelectSeq(d, Other)

\* factory.create_device followed by device.open(): the mock driver is
\* created and opens; an unrecognised driver type raises ValueError
create_device(driver_type) ==
    IF driver_type = "mock" THEN [device |-> <<driver_type>>, err |-> "ok"]
    ELSE [device |-> <<>>, err |-> "ValueError"]

\* DeviceManager.__init__
DeviceManager(auto_open) == [auto_open |-> auto_open, devices |-> <<>>, configs |-> <<>>]

\* DeviceManager._open_device : every exception becomes RuntimeError
open_device(name, driver_type) ==
    LET c == create_device(driver_type)
    IN  IF c.err = "ok" THEN c ELSE [device |-> <<>>, err |-> "RuntimeError"]

\* DeviceManager.register
register(m, name, driver_type) ==
    IF DictHas(m.configs, name) THEN [m |-> m, err |-> "ValueError"]
    ELSE LET stored == [m EXCEPT !.configs = DictPut(@, name, driver_type)]
         IN  IF m.auto_open
             THEN LET o == open_device(name, driver_type)
                  IN  IF o.err # "ok" THEN [m |-> stored, err |-> o.err]
                      ELSE [m |-> [stored EXCEPT !.devices = DictPut(@, name, o.device[1])],
                            err |-> "ok"]
             ELSE [m |-> stored, err |-> "ok"]

\* DeviceManager.__getitem__
getitem(m, name) ==
    IF DictHas(m.devices, name) THEN [m |-> m, err |-> "ok"]
    ELSE IF DictHas(m.configs, name)
    THEN LET o == open_device(name, DictGet(m.configs, name, ""))
         IN  IF o.err # "ok" THEN [m |-> m, err |-> o.err]
             ELSE [m |-> [m EXCEPT !.devices = DictPut(@, name, o.device[1])], err |-> "ok"]
    ELSE [m |-> m, err |-> "KeyError"]

\* DeviceManager.unregister
unregister(m, name) ==
    [m EXCEPT !.devices = DictDel(@, name), !.configs = DictDel(@, name)]

\* DeviceManager.close_all (the mock driver closes without error)
close_all(m) == [m EXCEPT !.devices = <<>>, !.configs = <<>>]

\* MockExecutor.__init__ : MockDriver() followed by init_from_xml_state
Init ==
    \E xml \in XmlStates :
        LET d == init_from_xml_state(NewDriver, xml)
        IN  /\ xml_state = xml
            /\ reg_map = d.reg_map
            /\ i2c_mem = d.i2c_mem
            /\ write_log = d.write_log
            /\ last = Call("init", <<>>, "ok")
            /\ ret = <<>>
            /\ exported = <<>>
            /\ manager = DeviceManager(TRUE)

\* read_reg through dict.setdefault: a missing cell is created on read
ReadRegSetdefault(a1, a2) ==
    /\ ret' = <<read_reg(Driver, a1, a2)>>
    /\ last' = Call("read_reg", <<a1, a2>>, "ok")
    /\ i2c_mem' = IF <<a1, a2>> \in DOMAIN i2c_mem THEN i2c_mem
                  ELSE MapPut(i2c_mem, <<a1, a2>>, 0)
    /\ UNCHANGED <<manager, xml_state, reg_map, write_log, exported>>

ReadReg(a1, a2) ==
    /\ ret' = <<read_reg(Driver, a1, a2)>>
    /\ last' = Call("read_reg", <<a1, a2>>, "ok")
    /\ UNCHANGED <<manager, xml_state, reg_map, i2c_mem, write_log, exported>>

WriteReg(a1, a2, value) ==
    /\ Len(write_log) < MaxLog
    /\ SetDriver(write_reg(Driver, a1, a2, value))
    /\ last' = Call("write_reg", <<a1, a2, value>>, "ok")
    /\ ret' = <<>>
    /\ UNCHANGED <<manager, xml_state, exported>>

WriteBits(a1, a2, mask, value) ==
    /\ Len(write_log) < MaxLog
    /\ SetDriver(write_bits(Driver, a1, a2, mask, value))
    /\ last' = Call("write_bits", <<a1, a2, mask, value>>, "ok")
    /\ ret' = <<>>
    /\ UNCHANGED <<manager, xml_state, exported>>

RegWrite(if_name, reg_name, value) ==
    LET r == reg_write(Driver, if_name, reg_name, value)
    IN  /\ Len(r.d.write_log) <= MaxLog
        /\ SetDriver(r.d)
        /\ last' = Call("reg_write", <<if_name, reg_name, value>>, r.err)
        /\ ret' = <<>>
    /\ UNCHANGED <<manager, xml_state, exported>>

RegRead(if_name, reg_name) ==
    LET r == reg_read(Driver, if_name, reg_name)
    IN  /\ ret' = IF r.err = "ok" THEN <<r.ret>> ELSE <<>>
        /\ last' = Call("reg_read", <<if_name, reg_name>>, r.err)
        /\ UNCHANGED <<manager, xml_state, reg_map, i2c_mem, write_log, exported>>

GetWriteLog ==
    /\ ret' = <<"list", get_write_log(Driver)>>
    /\ last' = Call("get_write_log", <<>>, "ok")
    /\ UNCHANGED <<manager, xml_state, reg_map, i2c_mem, write_log, exported>>

ClearWriteLog ==
    /\ SetDriver(clear_write_log(Driver))
    /\ last' = Call("clear_write_log", <<>>, "ok")
    /\ ret' = <<>>
    /\ UNCHANGED <<manager, xml_state, exported>>

Next ==
    \/ \E a \in RawAddrs : ReadReg(a[1], a[2])
    \/ \E a \in RawWriteAddrs, v \in RawValues : WriteReg(a[1], a[2], v)
    \/ \E a \in RawWriteAddrs, v \in RawValues : WriteBits(a[1], a[2], 7, v)
    \/ \E c \in RegWriteCalls : RegWrite(c[1], c[2], c[3])
    \/ \E k \in RegKeys : RegRead(k[1], k[2])
    \/ GetWriteLog
    \/ ClearWriteLog

Spec == Init /\ [][Next]_vars

(***************************************************************************)
(* Scripts.  A script is the sequence of its top-level items: a procedure  *)
(* definition [k |-> "def", name, body] or a statement; a statement is a   *)
(* register write [k |-> "w", ...] or a call [k |-> "call", f] of a        *)
(* procedure.                                                               *)
(***************************************************************************)
W(if_name, reg_name, value) ==
    [k |-> "w", if_name |-> if_name, reg_name |-> reg_name, value |-> value]

CallOf(f) == [k |-> "call", f |-> f]

Def(name, body) == [k |-> "def", name |-> name, body |-> body]

\* two procedures that write two fields of the same byte
ScriptTwoProcs ==
    << Def("a", << W("AG", "lo3", 5) >>),
       Def("b", << W("AG", "hi1", 0) >>) >>

\* a procedure that writes nothing next to one that writes
ScriptWithIdle ==
    << Def("a", << W("AG", "lo3", 5) >>),
       Def("idle", << >>) >>

\* procedures and the top-level code that calls them
ScriptMain ==
    << Def("a", << W("AG", "lo3", 5) >>),
       Def("b", << W("AG", "hi1", 0), CallOf("a") >>),
       CallOf("a"),
       CallOf("b") >>

\* no procedure at all, one over-wide write at top level
ScriptFlat == << W("AG", "lo3", 275) >>

\* a write to a register that is in no definition source
ScriptUnknown ==
    << Def("a", << W("AG", "lo3", 5), W("AG", "nosuch", 1), W("AG", "hi1", 0) >>),
       CallOf("a") >>

\* nothing that writes
ScriptSilent == << Def("idle", << >>), CallOf("idle") >>

\* a procedure that writes the same field twice, low then high
ScriptReset == << Def("rst", << W("AG", "lo3", 0), W("AG", "lo3", 1) >>) >>

\* a procedure that writes two fields whose masks do not start at bit 0
ScriptFormat ==
    << Def("fmt", << W("AG", "i2c_audio_format", 5), W("AG", "hi1", 1) >>) >>

\* a procedure that writes a two-byte field, called at top level
ScriptWide == << Def("wr", << W("P9", "wide", 275) >>), CallOf("wr") >>

Scripts == [two_procs |-> ScriptTwoProcs, with_idle |-> ScriptWithIdle,
            main |-> ScriptMain, flat |-> ScriptFlat,
            unknown |-> ScriptUnknown, silent |-> ScriptSilent,
            reset |-> ScriptReset, format |-> ScriptFormat,
            wide |-> ScriptWide]

ScriptPaths == DOMAIN Scripts

\* deepest chain of calls between procedures that is followed
MaxCallDepth == 3

(***************************************************************************)
(* MockExecutor                                                            *)
(***************************************************************************)
\* RegClass.w : the attribute chain AutoClass.<if>.<reg> exists only for
\* the registers build_autoclass found in reg_map
autoclass_w(d, st) ==
    IF <<st.if_name, st.reg_name>> \notin DOMAIN d.reg_map
    THEN [d |-> d, err |-> "AttributeError"]
    ELSE reg_write(d, st.if_name, st.reg_name, st.value)

\* the value of a one-element set: The({F(x) : x \in {e}}) is F(e) with e
\* evaluated once
The(S) == CHOOSE y \in S : TRUE

\* Python executing a statement list; env maps the procedure names bound so
\* far to their bodies
RECURSIVE exec_stmts(_, _, _, _)
exec_stmts(d, env, stmts, fuel) ==
    IF stmts = <<>> THEN [d |-> d, err |-> "ok"]
    ELSE The({ IF r.err # "ok" THEN r ELSE exec_stmts(r.d, env, Tail(stmts), fuel) :
               r \in { IF Head(stmts).k = "w" THEN autoclass_w(d, Head(stmts))
                       ELSE IF Head(stmts).f \notin DOMAIN env
                       THEN [d |-> d, err |-> "NameError"]
                       ELSE IF fuel = 0 THEN [d |-> d, err |-> "RecursionError"]
                       ELSE exec_stmts(d, env, env[Head(stmts).f], fuel - 1) } })

\* exec_item whose statement works on a private copy of the memory: its
\* writes are traced, the bytes are put back afterwards
exec_item_isolated(prev, item) ==
    IF prev.err # "ok" THEN prev
    ELSE IF item.k = "def"
    THEN [prev EXCEPT !.env = MapPut(@, item.name, item.body)]
    ELSE The({ [d |-> [r.d EXCEPT !.i2c_mem = prev.d.i2c_mem],
                env |-> prev.env, err |-> r.err] :
               r \in {exec_stmts(prev.d, prev.env, <<item>>, MaxCallDepth)} })

\* one top-level item of the script: a definition binds its name, a
\* statement runs at once
exec_item(prev, item) ==
    IF prev.err # "ok" THEN prev
    ELSE IF item.k = "def"
    THEN [prev EXCEPT !.env = MapPut(@, item.name, item.body)]
    ELSE The({ [d |-> r.d, env |-> prev.env, err |-> r.err] :
               r \in {exec_stmts(prev.d, prev.env, <<item>>, MaxCallDepth)} })

\* exec(script_content, exec_globals)
RECURSIVE exec_module(_, _, _)
exec_module(d, script, n) ==
    IF n = 0 THEN [d |-> d, env |-> EmptyMap, err |-> "ok"]
    ELSE The({ exec_item(prev, script[n]) : prev \in {exec_module(d, script, n - 1)} })

\* execute_script : the driver afterwards, the returned trace, the exception
execute_script(d, script) ==
    The({ [d |-> r.d, log |-> get_write_log(r.d), err |-> r.err] :
          r \in {exec_module(clear_write_log(d), script, Len(script))} })

\* f"{n:0{w}X}" and f"{n:0{w}d}" as digit sequences
RECURSIVE Digits(_, _)
Digits(n, base) ==
    IF n < base THEN <<n>> ELSE Append(Digits(n \div base, base), n % base)

RECURSIVE ZeroPad(_, _)
ZeroPad(ds, w) == IF Len(ds) >= w THEN ds ELSE ZeroPad(<<0>> \o ds, w)

Hex(n, w) == ZeroPad(Digits(n, 16), w)

Dec(n, w) == ZeroPad(Digits(n, 10), w)

\* lines of the exported text
HeaderLine(i1, i2, name) == [t |-> "hdr", idx |-> <<i1, i2>>, name |-> name]

B0Line(e, tail) ==
    [t |-> "B0", addr |-> Hex(PyOr(Shl(e[1], 8), e[2]), 4), value |-> Hex(e[3], 2),
     tail |-> tail]

CommentLine(text) == [t |-> ";", text |-> text]

EndLine == [t |-> "End"]

BlankLine == [t |-> ""]

\* B0 lines with repeated writes to one byte collapsed to the last value
RECURSIVE B0Lines_merged(_, _)
B0Lines_merged(log, tail) ==
    IF log = <<>> THEN <<>>
    ELSE (IF \E i \in 2..Len(log) : log[i][1] = log[1][1] /\ log[i][2] = log[1][2]
          THEN <<>>
          ELSE <<[t |-> "B0", addr |-> Hex(PyOr(Shl(log[1][1], 8), log[1][2]), 4),
                  value |-> Hex(log[1][3], 2), tail |-> tail]>>)
         \o B0Lines_merged(Tail(log), tail)

RECURSIVE B0Lines(_, _)
B0Lines(log, tail) ==
    IF log = <<>> THEN <<>>
    ELSE <<B0Line(Head(log), tail)>> \o B0Lines(Tail(log), tail)

\* generate_aves : driver afterwards, file written (<<>> : none), exception
generate_aves(d, script, func_index_start) ==
    The({ IF r.err # "ok" THEN [d |-> r.d, file |-> <<>>, err |-> r.err]
          ELSE IF r.log = <<>>
          THEN [d |-> r.d, file |-> <<<<CommentLine("No I2C operations generated")>>>>,
                err |-> "ok"]
          ELSE [d |-> r.d,
                file |-> << <<HeaderLine(Dec(1, 2), Dec(func_index_start, 2),
                                         "auto_generated")>>
                            \o B0Lines(r.log, "") \o <<EndLine>> >>,
                err |-> "ok"] :
          r \in {execute_script(d, script)} })

\* the names of the top-level FunctionDef nodes, in source order
RECURSIVE function_names(_)
function_names(script) ==
    IF script = <<>> THEN <<>>
    ELSE (IF Head(script).k = "def" THEN <<Head(script).name>> ELSE <<>>)
         \o function_names(Tail(script))

\* _extract_autoclass_calls : the AutoClass calls in the body of the first
\* procedure of that name
RECURSIVE body_calls(_)
body_calls(body) ==
    IF body = <<>> THEN <<>>
    ELSE (IF Head(body).k = "w" THEN <<Head(body)>> ELSE <<>>) \o body_calls(Tail(body))

extract_autoclass_calls(script, func_name) ==
    IF \E i \in 1..Len(script) : script[i].k = "def" /\ script[i].name = func_name
    THEN body_calls(script[CHOOSE i \in 1..Len(script) :
                        /\ script[i].k = "def" /\ script[i].name = func_name
                        /\ \A j \in 1..(i - 1) :
                              ~(script[j].k = "def" /\ script[j].name = func_name)].body)
    ELSE <<>>

RECURSIVE CallComments(_)
CallComments(calls) ==
    IF calls = <<>> THEN <<>>
    ELSE <<CommentLine(Head(calls))>> \o CallComments(Tail(calls))

\* the lines generate_aves_per_function adds for one procedure
block_lines(script, func_name, write_log_, func_index_start, sub_index) ==
    LET autoclass_calls == extract_autoclass_calls(script, func_name)
    IN  IF write_log_ = <<>> THEN <<>>
        ELSE <<HeaderLine(Dec(func_index_start, 2), Dec(sub_index, 2), func_name)>>
             \o (IF autoclass_calls = <<>> THEN <<>>
                 ELSE <<CommentLine("AutoClass commands:")>> \o CallComments(autoclass_calls))
             \o B0Lines(write_log_, ";")
             \o <<EndLine, BlankLine>>

\* exec of the script followed by the call of the procedure, if it is bound
exec_and_call(d, script, func_name) ==
    The({ IF m.err # "ok" THEN [d |-> m.d, err |-> m.err]
          ELSE IF func_name \in DOMAIN m.env
          THEN exec_stmts(m.d, m.env, m.env[func_name], MaxCallDepth)
          ELSE [d |-> m.d, err |-> "ok"] :
          m \in {exec_module(d, script, Len(script))} })

\* one iteration of the loop of generate_aves_per_function
per_function_step(prev, script, func_name, func_index_start) ==
    IF prev.err # "ok" THEN prev
    ELSE The({ IF c.err # "ok" THEN [prev EXCEPT !.d = c.d, !.err = c.err]
               ELSE [d |-> c.d,
                     lines |-> prev.lines
                               \o block_lines(script, func_name, get_write_log(c.d),
                                              func_index_start, prev.sub_index),
                     sub_index |-> IF get_write_log(c.d) = <<>> THEN prev.sub_index
                                   ELSE prev.sub_index + 1,
                     err |-> "ok"] :
               c \in {exec_and_call(clear_write_log(prev.d), script, func_name)} })

\* the loop of generate_aves_per_function over functions[1..n]
RECURSIVE per_function_loop(_, _, _, _, _)
per_function_loop(d, script, functions, func_index_start, n) ==
    IF n = 0 THEN [d |-> d, lines |-> <<>>, sub_index |-> 1, err |-> "ok"]
    ELSE The({ per_function_step(prev, script, functions[n], func_index_start) :
               prev \in {per_function_loop(d, script, functions, func_index_start, n - 1)} })

\* generate_aves_per_function : driver afterwards, file written, exception
generate_aves_per_function(d, script, func_index_start) ==
    LET functions == function_names(script)
    IN  IF functions = <<>> THEN generate_aves(d, script, func_index_start)
        ELSE The({ IF r.err # "ok" THEN [d |-> r.d, file |-> <<>>, err |-> r.err]
                   ELSE [d |-> r.d, file |-> <<r.lines>>, err |-> "ok"] :
                   r \in {per_function_loop(d, script, functions, func_index_start,
                                            Len(functions))} })

(***************************************************************************)
(* AVESConverter._parse_aves_script, reading the exported text             *)
(***************************************************************************)
\* re.match(r"(\d{2,3}(?:[-_]\d{2,3})+)\s+(.+)") on the header content
header_func(line) ==
    IF \A i \in 1..2 : Len(line.idx[i]) \in 2..3
    THEN <<line.idx, line.name>>
    ELSE <<"00-00", <<line.idx, line.name>>>>

RECURSIVE parse_aves_upto(_, _)
parse_aves_upto(lines, n) ==
    IF n = 0 THEN [functions |-> <<>>, current_func |-> <<>>, current_commands |-> <<>>]
    ELSE LET st   == parse_aves_upto(lines, n - 1)
             line == lines[n]
             open == st.current_func # <<>> /\ st.current_commands # <<>>
             done == Append(st.functions,
                            <<st.current_func[1], st.current_func[2], st.current_commands>>)
         IN  IF line.t \in {"", ";"} THEN st
             ELSE IF line.t = "hdr"
             THEN [functions |-> IF open THEN done ELSE st.functions,
                   current_func |-> header_func(line),
                   current_commands |-> <<>>]
             ELSE IF line.t = "End"
             THEN (IF open
                   THEN [functions |-> done, current_func |-> <<>>,
                         current_commands |-> <<>>]
                   ELSE st)
             ELSE IF st.current_func # <<>>
             THEN [st EXCEPT !.current_commands = Append(@, line)]
             ELSE st

parse_aves_script(lines) ==
    LET st == parse_aves_upto(lines, Len(lines))
    IN  IF st.current_func # <<>> /\ st.current_commands # <<>>
        THEN Append(st.functions,
                    <<st.current_func[1], st.current_func[2], st.current_commands>>)
        ELSE st.functions

(***************************************************************************)
(* AVESGenerator (ic_psd2/src/aves_generator.py): static interpretation of *)
(* the procedures of a script, one merged block per procedure.             *)
(***************************************************************************)
\* one iteration of the loop of AVESGenerator._apply_field_default
gen_apply_default_byte(default_bytes, if_name, field, i) ==
    LET addr  == field.masks[i][1]
        mask  == field.masks[i][2]
        shift == DictGet(field.shifts, addr, 0)
        dv    == default_int(field.default)
        byte_contrib == IF shift < 0 THEN PyAnd(Shr(dv, -shift), mask)
                        ELSE PyAnd(Shl(dv, shift), mask)
        key   == <<if_name, addr>>
        cur   == IF key \in DOMAIN default_bytes THEN default_bytes[key] ELSE 0
    IN  MapPut(default_bytes, key, PyOr(cur, byte_contrib))

RECURSIVE gen_apply_field_default(_, _, _, _)
gen_apply_field_default(default_bytes, if_name, field, n) ==
    IF n = 0 THEN default_bytes
    ELSE gen_apply_default_byte(
             gen_apply_field_default(default_bytes, if_name, field, n - 1),
             if_name, field, n)

\* body of the loop over the fields in AVESGenerator._load_xml_state
gen_load_field(g, if_name, f) ==
    IF f.caption = "" THEN g
    ELSE LET field_info == [interface |-> if_name, caption |-> f.caption,
                            default |-> f.defaultvalue,
                            masks |-> parse_hex_dict(f.mask),
                            shifts |-> parse_hex_dict(f.shift)]
         IN  [reg_map |-> DictPut(g.reg_map, <<if_name, f.caption>>, field_info),
              default_bytes |-> gen_apply_field_default(g.default_bytes, if_name,
                                    field_info, Len(field_info.masks))]

RECURSIVE gen_load_fields(_, _, _, _)
gen_load_fields(g, if_name, fields, n) ==
    IF n = 0 THEN g
    ELSE gen_load_field(gen_load_fields(g, if_name, fields, n - 1), if_name, fields[n])

RECURSIVE gen_load_interfaces(_, _, _)
gen_load_interfaces(g, interfaces, n) ==
    IF n = 0 THEN g
    ELSE gen_load_fields(gen_load_interfaces(g, interfaces, n - 1),
                         interfaces[n].name, interfaces[n].field,
                         Len(interfaces[n].field))

\* AVESGenerator(xml_state_path) : reg_map in insertion order, default_bytes
AVESGenerator(xml) ==
    gen_load_interfaces([reg_map |-> <<>>, default_bytes |-> EmptyMap], xml, Len(xml))

\* _find_reg_writes over the statements of a body: the .w calls with a
\* constant argument, in source order; calls of procedures are not followed
RECURSIVE find_reg_writes(_)
find_reg_writes(body) ==
    IF body = <<>> THEN <<>>
    ELSE (IF Head(body).k = "w"
          THEN << <<Head(body).if_name, Head(body).reg_name, Head(body).value>> >>
          ELSE <<>>) \o find_reg_writes(Tail(body))

\* one iteration of the loop over field["masks"] in _process_function
gen_write_byte(st, if_name, field, val, i) ==
    LET addr == field.masks[i][1]
        mask == field.masks[i][2]
        key  == <<if_name, addr>>
        cur  == IF key \in DOMAIN st.local_bytes THEN st.local_bytes[key] ELSE 0
        bits == PyAnd(Shl(val, mask_lsb_pos(mask)), mask)
    IN  [local_bytes |-> MapPut(st.local_bytes, key, PyOr(PyAnd(cur, PyNot(mask)), bits)),
         touched_addrs |-> st.touched_addrs \cup {key}]

RECURSIVE gen_write_bytes(_, _, _, _, _)
gen_write_bytes(st, if_name, field, val, n) ==
    IF n = 0 THEN st
    ELSE gen_write_byte(gen_write_bytes(st, if_name, field, val, n - 1),
                        if_name, field, val, n)

\* the writes found in the body applied in order; a write whose
\* (interface, caption) is not in reg_map is passed over
RECURSIVE gen_apply_writes(_, _, _, _)
gen_apply_writes(g, st, writes, n) ==
    IF n = 0 THEN st
    ELSE The({ IF ~DictHas(g.reg_map, <<writes[n][1], writes[n][2]>>) THEN prev
               ELSE LET field == DictGet(g.reg_map, <<writes[n][1], writes[n][2]>>, <<>>)
                    IN  gen_write_bytes(prev, writes[n][1], field, writes[n][3],
                                        Len(field.masks)) :
               prev \in {gen_apply_writes(g, st, writes, n - 1)} })

\* order of the interface names under sorted()
PageRank == [AG |-> 1, P9 |-> 2]

\* len(func_name)
NameLength == [a |-> 1, b |-> 1, idle |-> 4, rst |-> 3, fmt |-> 3, wr |-> 2]

\* sorted(list(touched_addrs))
RECURSIVE sorted_addrs(_)
sorted_addrs(S) ==
    IF S = {} THEN <<>>
    ELSE LET m == CHOOSE x \in S : \A y \in S :
                      \/ PageRank[x[1]] < PageRank[y[1]]
                      \/ (PageRank[x[1]] = PageRank[y[1]] /\ x[2] <= y[2])
         IN  <<m>> \o sorted_addrs(S \ {m})

\* the captions of the registers with a mask at that address (first three)
RECURSIVE involved_fields(_, _, _, _)
involved_fields(reg_map_, if_name, addr, n) ==
    IF n = 0 THEN <<>>
    ELSE LET rest == involved_fields(reg_map_, if_name, addr, n - 1)
             key  == reg_map_[n][1]
             f    == reg_map_[n][2]
         IN  IF key[1] = if_name /\ DictHas(f.masks, addr) /\ Len(rest) < 3
             THEN Append(rest, f.caption) ELSE rest

RECURSIVE gen_b0_lines(_, _, _)
gen_b0_lines(g, local_bytes, addrs) ==
    IF addrs = <<>> THEN <<>>
    ELSE << [t |-> "B0", addr |-> Hex(Head(addrs)[2], 4),
             value |-> Hex(local_bytes[Head(addrs)], 2),
             tail |-> involved_fields(g.reg_map, Head(addrs)[1], Head(addrs)[2],
                                      Len(g.reg_map))] >>
         \o gen_b0_lines(g, local_bytes, Tail(addrs))

\* _process_function : the block of one procedure
process_function(g, func) ==
    The({ <<HeaderLine(Dec(NameLength[func.name] % 99, 2), Dec(1, 2), func.name)>>
          \o gen_b0_lines(g, st.local_bytes, sorted_addrs(st.touched_addrs))
          \o <<EndLine>> :
          st \in {gen_apply_writes(g, [local_bytes |-> g.default_bytes,
                                        touched_addrs |-> {}],
                                   find_reg_writes(func.body),
                                   Len(find_reg_writes(func.body)))} })

\* build_aves : the blocks of the FunctionDef nodes joined by an empty line
RECURSIVE build_aves(_, _, _)
build_aves(g, script, n) ==
    IF n = 0 THEN <<>>
    ELSE The({ IF script[n].k # "def" THEN prev
               ELSE (IF prev = <<>> THEN <<>> ELSE prev \o <<BlankLine>>)
                    \o process_function(g, script[n]) :
               prev \in {build_aves(g, script, n - 1)} })

(***************************************************************************)
(* The executor as state.  exported is the text at the output path (<<>>   *)
(* while nothing was written).                                             *)
(***************************************************************************)
\* MockExecutor(xml_state_path) constructed again over the same source
NewExecutor ==
    /\ SetDriver(init_from_xml_state(NewDriver, xml_state))
    /\ last' = Call("init", <<>>, "ok")
    /\ ret' = <<>>
    /\ UNCHANGED <<manager, xml_state, exported>>

ExecuteScript(path) ==
    \E r \in {execute_script(Driver, Scripts[path])} :
        /\ SetDriver(r.d)
        /\ last' = Call("execute_script", <<path>>, r.err)
        /\ ret' = IF r.err = "ok" THEN <<"list", r.log>> ELSE <<>>
        /\ UNCHANGED <<manager, xml_state, exported>>

GenerateAves(path, func_index_start) ==
    \E r \in {generate_aves(Driver, Scripts[path], func_index_start)} :
        /\ SetDriver(r.d)
        /\ last' = Call("generate_aves", <<path, func_index_start>>, r.err)
        /\ ret' = IF r.err = "ok" THEN <<"path", "output_path">> ELSE <<>>
        /\ exported' = IF r.err = "ok" THEN r.file[1] ELSE exported
        /\ UNCHANGED <<manager, xml_state>>

GenerateAvesPerFunction(path, func_index_start) ==
    \E r \in {generate_aves_per_function(Driver, Scripts[path], func_index_start)} :
        /\ SetDriver(r.d)
        /\ last' = Call("generate_aves_per_function", <<path, func_index_start>>, r.err)
        /\ ret' = IF r.err = "ok" THEN <<"path", "output_path">> ELSE <<>>
        /\ exported' = IF r.err = "ok" THEN r.file[1] ELSE exported
        /\ UNCHANGED <<manager, xml_state>>

NextExec ==
    \/ NewExecutor
    \/ \E p \in ScriptPaths : ExecuteScript(p)
    \/ \E p \in ScriptPaths : GenerateAves(p, 1)
    \/ \E p \in ScriptPaths : GenerateAvesPerFunction(p, 1)

SpecExec == Init /\ [][NextExec]_vars

(***************************************************************************)
(* Static generation next to execution: AVESGenerator is built over the    *)
(* same definition source; its reg_map and default_bytes are fixed by      *)
(* the constructor, so they are AVESGenerator(xml_state) throughout.       *)
(***************************************************************************)
BuildAves(path) ==
    \E out \in {build_aves(AVESGenerator(xml_state), Scripts[path], Len(Scripts[path]))} :
        /\ exported' = out
        /\ last' = Call("build_aves", <<path>>, "ok")
        /\ ret' = <<>>
        /\ UNCHANGED <<manager, xml_state, reg_map, i2c_mem, write_log>>

NextGen ==
    \/ NewExecutor
    \/ \E p \in ScriptPaths : ExecuteScript(p)
    \/ \E p \in ScriptPaths : GenerateAves(p, 1)
    \/ \E p \in ScriptPaths : GenerateAvesPerFunction(p, 1)
    \/ \E p \in ScriptPaths : BuildAves(p)

SpecGen == Init /\ [][NextGen]_vars

(***************************************************************************)
(* AutoClassGenerator (ic_psd3/src/psd_bridge/unified_generator.py): the   *)
(* rewriter of symbolic accesses.  It reads the same definition source; a  *)
(* field's <address> is the first address of its mask literal.  Text of    *)
(* the source is kept as the number it spells: a mask or shift text is     *)
(* <<n>>, or <<>> for the empty text of a missing entry.                   *)
(***************************************************************************)
\* _parse_mask_shift : the (address, value) items of the literal, in order;
\* an item without ':' is dropped
RECURSIVE parse_mask_shift(_)
parse_mask_shift(s) ==
    IF s = <<>> THEN <<>>
    ELSE (IF Len(Head(s)) = 2 THEN <<Head(s)>> ELSE <<>>) \o parse_mask_shift(Tail(s))

\* configs[addr][key] = val for every entry, in order
RECURSIVE put_configs(_, _, _)
put_configs(configs, entries, key) ==
    IF entries = <<>> THEN configs
    ELSE put_configs(
             DictPut(configs, Head(entries)[1],
                     [DictGet(configs, Head(entries)[1], [mask |-> <<>>, shift |-> <<>>])
                        EXCEPT ![key] = <<Head(entries)[2]>>]),
             Tail(entries), key)

\* the register_data entries _build_json_data makes for one field
field_registers(f) ==
    LET configs == put_configs(put_configs(<<>>, parse_mask_shift(f.mask), "mask"),
                               parse_mask_shift(f.shift), "shift")
    IN  [i \in 1..Len(configs) |->
            [register_name |-> f.caption,
             byte_address |-> configs[i][1],
             byte_mask |-> configs[i][2].mask,
             byte_shift |-> configs[i][2].shift]]

RECURSIVE fields_registers(_)
fields_registers(fields) ==
    IF fields = <<>> THEN <<>>
    ELSE field_registers(Head(fields)) \o fields_registers(Tail(fields))

\* _build_json_data : the entries of all fields in document order
RECURSIVE build_json_data(_)
build_json_data(xml) ==
    IF xml = <<>> THEN <<>>
    ELSE fields_registers(Head(xml).field) \o build_json_data(Tail(xml))

\* _parse_device_addresses : addr_to_key, page base byte -> page name, from
\* the address of the first field of every interface
RECURSIVE parse_device_addresses(_)
parse_device_addresses(xml) ==
    IF xml = <<>> THEN EmptyMap
    ELSE LET rest  == parse_device_addresses(SubSeq(xml, 1, Len(xml) - 1))
             iface == xml[Len(xml)]
             pairs == IF iface.field = <<>> THEN <<>>
                      ELSE parse_mask_shift(iface.field[1].mask)
         IN  IF pairs = <<>> THEN rest
             ELSE MapPut(rest, Shr(pairs[1][1], 8), iface.name)

\* _get_base_key = page for a byte address (a base byte without a page gets
\* a name of the form 0xNN, which no access of the model spells)
in_page(xml, byte_address, page) ==
    LET addr_to_key == parse_device_addresses(xml)
        base_addr   == Shr(byte_address, 8)
    IN  base_addr \in DOMAIN addr_to_key /\ addr_to_key[base_addr] = page

\* _get_register_info over page_reg_map : the entries of that page and
\* register name in order, <<>> for None
RECURSIVE select_registers(_, _, _, _)
select_registers(xml, registers, page, reg_name) ==
    IF registers = <<>> THEN <<>>
    ELSE (IF /\ Head(registers).register_name # ""
             /\ Head(registers).register_name = reg_name
             /\ in_page(xml, Head(registers).byte_address, page)
          THEN <<Head(registers)>> ELSE <<>>)
         \o select_registers(xml, Tail(registers), page, reg_name)

get_register_info(xml, page, reg_name) ==
    select_registers(xml, build_json_data(xml), page, reg_name)

\* _get_addr12 : the two address bytes as 0xNN texts
get_addr12(addr) == <<Hex(addr1_of(addr), 2), Hex(addr2_of(addr), 2)>>

\* _get_rshift_str : int(byte_shift) rejects the empty text
get_rshift_str(byte_shift) ==
    IF byte_shift = <<>> THEN [str |-> <<>>, err |-> "ValueError"]
    ELSE IF byte_shift[1] = 0 THEN [str |-> <<>>, err |-> "ok"]
    ELSE IF byte_shift[1] < 0 THEN [str |-> <<"<<", -byte_shift[1]>>, err |-> "ok"]
    ELSE [str |-> <<">>", byte_shift[1]>>, err |-> "ok"]

\* _get_read_cmd : (dev.read_reg(a1, a2) & mask) shifted; "& mask" is left
\* out for the mask text 0xFF
get_read_cmd(reg_info) ==
    LET addr12 == get_addr12(reg_info.byte_address)
        sh     == get_rshift_str(reg_info.byte_shift)
    IN  [cmd |-> [addr1 |-> addr12[1], addr2 |-> addr12[2],
                  byte_mask_str |-> IF reg_info.byte_mask = <<255>> THEN <<>>
                                    ELSE <<"&", reg_info.byte_mask>>,
                  shift_str |-> sh.str],
         err |-> sh.err]

\* the rb_<reg> |= ... lines of a register with several entries
RECURSIVE read_or_lines(_, _)
read_or_lines(reg_name, reg_info_list) ==
    IF reg_info_list = <<>> THEN [cmds |-> <<>>, err |-> "ok"]
    ELSE LET c    == get_read_cmd(Head(reg_info_list))
             rest == read_or_lines(reg_name, Tail(reg_info_list))
         IN  IF c.err # "ok" THEN [cmds |-> <<>>, err |-> c.err]
             ELSE IF rest.err # "ok" THEN rest
             ELSE [cmds |-> <<[k |-> "rb |=", reg |-> reg_name, cmd |-> c.cmd]>>
                            \o rest.cmds,
                   err |-> "ok"]

\* _get_read_list
get_read_list(xml, page, reg_name) ==
    LET reg_info_list == get_register_info(xml, page, reg_name)
    IN  IF reg_info_list = <<>>
        THEN [cmds |-> <<[k |-> "# ERROR", page |-> page, reg |-> reg_name]>>,
              err |-> "ok"]
        ELSE IF Len(reg_info_list) = 1
        THEN LET c == get_read_cmd(reg_info_list[1])
             IN  IF c.err # "ok" THEN [cmds |-> <<>>, err |-> c.err]
                 ELSE [cmds |-> <<[k |-> "rb =", reg |-> reg_name, cmd |-> c.cmd]>>,
                       err |-> "ok"]
        ELSE LET r == read_or_lines(reg_name, reg_info_list)
             IN  IF r.err # "ok" THEN r
                 ELSE [cmds |-> <<[k |-> "rb = 0", reg |-> reg_name]>> \o r.cmds,
                       err |-> "ok"]

\* the while loop of _mask_to_lsb_bits
RECURSIVE count_ones(_)
count_ones(shifted) ==
    IF PyAnd(shifted, 1) = 1 THEN 1 + count_ones(Shr(shifted, 1)) ELSE 0

\* _mask_to_lsb_bits : int(mask, 16) rejects the empty text
mask_to_lsb_bits(mask) ==
    IF mask = <<>> THEN [lsb |-> 0, bits |-> 0, err |-> "ValueError"]
    ELSE IF mask[1] = 0 THEN [lsb |-> 0, bits |-> 0, err |-> "ok"]
    ELSE [lsb |-> mask_lsb_pos(mask[1]),
          bits |-> count_ones(Shr(mask[1], mask_lsb_pos(mask[1]))),
          err |-> "ok"]

\* _get_w_val : int() accepts a hexadecimal or decimal numeral only
get_w_val(shift, mask, w_str) ==
    IF w_str.form \notin {"hex", "dec"} \/ shift = <<>> \/ mask = <<>>
    THEN [val |-> 0, err |-> "ValueError"]
    ELSE LET w_num     == w_str.v
             shift_num == shift[1]
             mask_num  == mask[1]
         IN  [val |-> IF shift_num = 0 THEN PyAnd(w_num, mask_num)
                      ELSE IF shift_num < 0 THEN PyAnd(Shr(w_num, -shift_num), mask_num)
                      ELSE Shr(PyAnd(Shl(w_num, shift_num), mask_num), shift_num),
              err |-> "ok"]

\* _get_write_cmd : dev.write_bits(a1, a2, lsb, bits, value); the mask
\* defaults apply to a missing key only, never to an empty text
get_write_cmd(reg_info, value_var) ==
    LET addr12 == get_addr12(reg_info.byte_address)
        lb     == mask_to_lsb_bits(reg_info.byte_mask)
        wv     == get_w_val(reg_info.byte_shift, reg_info.byte_mask, value_var)
    IN  IF lb.err # "ok" THEN [cmd |-> <<>>, err |-> lb.err]
        ELSE IF wv.err # "ok" THEN [cmd |-> <<>>, err |-> wv.err]
        ELSE [cmd |-> <<[k |-> "write_bits", addr1 |-> addr12[1], addr2 |-> addr12[2],
                         lsb |-> lb.lsb, bits |-> lb.bits, value |-> wv.val]>>,
              err |-> "ok"]

RECURSIVE write_cmd_lines(_, _)
write_cmd_lines(reg_info_list, value_var) ==
    IF reg_info_list = <<>> THEN [cmds |-> <<>>, err |-> "ok"]
    ELSE LET c    == get_write_cmd(Head(reg_info_list), value_var)
             rest == write_cmd_lines(Tail(reg_info_list), value_var)
         IN  IF c.err # "ok" THEN [cmds |-> <<>>, err |-> c.err]
             ELSE IF rest.err # "ok" THEN rest
             ELSE [cmds |-> c.cmd \o rest.cmds, err |-> "ok"]

\* a _get_write_list that raises for a register it does not find
get_write_list_raising(xml, page, reg_name, value_var) ==
    LET reg_info_list == get_register_info(xml, page, reg_name)
    IN  IF reg_info_list = <<>>
        THEN [cmds |-> <<>>, err |-> "ValueError"]
        ELSE LET r == write_cmd_lines(reg_info_list, value_var)
             IN  IF r.err # "ok" THEN r
                 ELSE [cmds |-> <<[k |-> "# w", page |-> page, reg |-> reg_name,
                                   value_var |-> value_var]>> \o r.cmds,
                       err |-> "ok"]

\* _get_write_list
get_write_list(xml, page, reg_name, value_var) ==
    LET reg_info_list == get_register_info(xml, page, reg_name)
    IN  IF reg_info_list = <<>>
        THEN [cmds |-> <<[k |-> "# ERROR", page |-> page, reg |-> reg_name]>>,
              err |-> "ok"]
        ELSE LET r == write_cmd_lines(reg_info_list, value_var)
             IN  IF r.err # "ok" THEN r
                 ELSE [cmds |-> <<[k |-> "# w", page |-> page, reg |-> reg_name,
                                   value_var |-> value_var]>> \o r.cmds,
                       err |-> "ok"]

(***************************************************************************)
(* Files given to the rewriter.  A line is its leading whitespace (a       *)
(* number of blanks) and the segments that follow: plain text that the     *)
(* pattern does not match, or a symbolic access AutoClass.page.reg.op(args)*)
(* that it matches.  The argument text is a hexadecimal numeral, a decimal *)
(* numeral, an expression that is no numeral, or empty.                    *)
(***************************************************************************)
Text(s) == [k |-> "text", s |-> s]

Acc(page, reg, op, args) == [k |-> "acc", page |-> page, reg |-> reg, op |-> op, args |-> args]

HexArg(n) == [form |-> "hex", v |-> n, text |-> ""]

DecArg(n) == [form |-> "dec", v |-> n, text |-> ""]

ExprArg(t) == [form |-> "expr", v |-> 0, text |-> t]

NoArg == [form |-> "empty", v |-> 0, text |-> ""]

Line(indent, segs) == [indent |-> indent, segs |-> segs]

\* text lines at several depths, a known write and read, an unknown write
\* in the middle
FileMixed ==
    << Line(0, <<Text("def cfg():")>>),
       Line(4, <<Acc("AG", "i2c_audio_format", "w", HexArg(5))>>),
       Line(4, <<Text("time.sleep(1)")>>),
       Line(8, <<Acc("AG", "nosuch", "w", ExprArg("val"))>>),
       Line(4, <<Acc("AG", "hi1", "r", NoArg)>>),
       Line(0, <<Text("# end")>>) >>

\* a register spread over two bytes, written and read; an unknown read
FileWide ==
    << Line(2, <<Acc("P9", "wide", "w", DecArg(275))>>),
       Line(0, <<Text("")>>),
       Line(2, <<Acc("P9", "wide", "r", NoArg)>>),
       Line(2, <<Acc("P9", "nosuch", "r", NoArg)>>) >>

\* two accesses on one line, text before the first
FileTwoOnLine ==
    << Line(4, <<Text("x = "), Acc("AG", "hi1", "r", NoArg), Text(" + "),
                 Acc("AG", "i2c_audio_format", "r", NoArg)>>),
       Line(4, <<Text("return x")>>) >>

\* a write whose argument is a variable
FileSymbolic ==
    << Line(4, <<Text("val = 1")>>),
       Line(4, <<Acc("AG", "hi1", "w", ExprArg("val"))>>),
       Line(4, <<Text("return val")>>) >>

\* a write without argument and accesses to a register that may lack its
\* shift entry
FileLow ==
    << Line(0, <<Acc("AG", "hi1", "w", NoArg)>>),
       Line(0, <<Acc("AG", "lo3", "r", NoArg)>>),
       Line(0, <<Acc("AG", "lo3", "w", HexArg(5))>>) >>

\* the write of the literal 0x3 to the 3-bit field of byte (0x06, 0x00)
FileFormat ==
    << Line(0, <<Acc("AG", "i2c_audio_format", "w", HexArg(3))>>) >>

Files == [mixed |-> FileMixed, wide |-> FileWide, two |-> FileTwoOnLine,
          symbolic |-> FileSymbolic, low |-> FileLow, format |-> FileFormat]

FilePaths == DOMAIN Files

\* pattern.search(line) : the first access of the line, <<>> for no match
RECURSIVE pattern_search(_)
pattern_search(segs) ==
    IF segs = <<>> THEN <<>>
    ELSE IF Head(segs).k = "acc" THEN <<Head(segs)>>
    ELSE pattern_search(Tail(segs))

\* f"{indent}{cmd}\n" for every cmd
indent_cmds(indent, cmds) == [i \in 1..Len(cmds) |-> Line(indent, <<cmds[i]>>)]

\* a loop body that re-indents the lines it does not match
replace_line_stripped(xml, line) ==
    LET match == pattern_search(line.segs)
    IN  IF match # <<>>
        THEN LET m         == match[1]
                 value_var == IF m.args.form # "empty" THEN m.args ELSE DecArg(0)
                 r         == IF m.op = "r" THEN get_read_list(xml, m.page, m.reg)
                              ELSE get_write_list(xml, m.page, m.reg, value_var)
             IN  [lines |-> indent_cmds(line.indent, r.cmds), err |-> r.err]
        ELSE [lines |-> <<Line(0, line.segs)>>, err |-> "ok"]

\* the body of the loop of replace_autoclass_calls for one line
replace_line(xml, line) ==
    LET match == pattern_search(line.segs)
    IN  IF match # <<>>
        THEN LET m         == match[1]
                 value_var == IF m.args.form # "empty" THEN m.args ELSE DecArg(0)
                 r         == IF m.op = "r" THEN get_read_list(xml, m.page, m.reg)
                              ELSE get_write_list(xml, m.page, m.reg, value_var)
             IN  [lines |-> indent_cmds(line.indent, r.cmds), err |-> r.err]
        ELSE [lines |-> <<line>>, err |-> "ok"]

\* replace_autoclass_calls : new_lines, or the exception that ends the loop
RECURSIVE replace_autoclass_calls(_, _)
replace_autoclass_calls(xml, lines) ==
    IF lines = <<>> THEN [new_lines |-> <<>>, err |-> "ok"]
    ELSE LET first == replace_line(xml, Head(lines))
         IN  IF first.err # "ok" THEN [new_lines |-> <<>>, err |-> first.err]
             ELSE LET rest == The({replace_autoclass_calls(xml, t) : t \in {Tail(lines)}})
                  IN  IF rest.err # "ok" THEN rest
                      ELSE [new_lines |-> first.lines \o rest.new_lines, err |-> "ok"]

\* AutoClassGenerator.replace_autoclass_calls(file_path, output_path): the
\* output file is written only when the loop completes
ReplaceAutoclassCalls(file_path) ==
    \E r \in {replace_autoclass_calls(xml_state, Files[file_path])} :
        /\ exported' = IF r.err = "ok" THEN r.new_lines ELSE exported
        /\ ret' = IF r.err = "ok" THEN <<"path", "output_path">> ELSE <<>>
        /\ last' = Call("replace_autoclass_calls", <<file_path>>, r.err)
        /\ UNCHANGED <<manager, xml_state, reg_map, i2c_mem, write_log>>

\* the rewriter next to a device whose registers are being written
NextRewrite ==
    \/ \E f \in FilePaths : ReplaceAutoclassCalls(f)
    \/ \E c \in RegWriteCalls : RegWrite(c[1], c[2], c[3])
    \/ ClearWriteLog

SpecRewrite == Init /\ [][NextRewrite]_vars

(***************************************************************************)
(* parse_aves (ic_psd2/src/aves_to_sv_tasks.py), reading the exported text *)
(***************************************************************************)
\* FUNC_HEADER_RE : ':' two digits '-' two digits, blanks, the name, ':'
func_header_match(line) ==
    IF line.t = "hdr" /\ Len(line.idx[1]) = 2 /\ Len(line.idx[2]) = 2
    THEN <<line.name>> ELSE <<>>

\* B0_RE : four hexadecimal digits, blanks, two hexadecimal digits
b0_match(line) ==
    IF line.t = "B0" /\ Len(line.addr) = 4 /\ Len(line.value) >= 2
    THEN <<line.addr, SubSeq(line.value, 1, 2)>> ELSE <<>>

\* int(text, 16)
RECURSIVE int16(_)
int16(ds) == IF ds = <<>> THEN 0 ELSE 16 * int16(SubSeq(ds, 1, Len(ds) - 1)) + ds[Len(ds)]

\* the loop of parse_aves over the first n lines: functions in insertion
\* order, and current_func (<<>> for None)
RECURSIVE parse_aves_lines(_, _)
parse_aves_lines(lines, n) ==
    IF n = 0 THEN [functions |-> <<>>, current_func |-> <<>>]
    ELSE LET st    == parse_aves_lines(lines, n - 1)
             line  == lines[n]
             match == func_header_match(line)
             m_b0  == b0_match(line)
         IN  IF line.t = "" THEN st
             ELSE IF match # <<>>
             THEN [functions |-> IF DictHas(st.functions, match[1]) THEN st.functions
                                 ELSE DictPut(st.functions, match[1], <<>>),
                   current_func |-> match]
             ELSE IF line.t = "End" THEN [st EXCEPT !.current_func = <<>>]
             ELSE IF st.current_func = <<>> THEN st
             ELSE IF line.t = ";" THEN st
             ELSE IF m_b0 = <<>> THEN st
             ELSE LET addr  == int16(m_b0[1])
                      value == int16(m_b0[2])
                      page  == PyAnd(Shr(addr, 8), 255)
                      reg   == PyAnd(addr, 255)
                      name  == st.current_func[1]
                  IN  [st EXCEPT !.functions =
                          DictPut(@, name, Append(DictGet(@, name, <<>>),
                                                  <<page, reg, value>>))]

parse_aves(lines) == parse_aves_lines(lines, Len(lines)).functions

(***************************************************************************)
(* IDevice (hw_bridge/src/hw_bridge/interfaces.py): the device the         *)
(* rewritten scripts call.                                                 *)
(***************************************************************************)
\* IDevice._bits_to_mask
bits_to_mask(bits) ==
    IF bits <= 0 THEN 0 ELSE IF bits >= 8 THEN 255 ELSE Shl(1, bits) - 1

\* IDevice.write_bits(addr1, addr2, lsb, bits, value) on a device whose
\* read_reg and write_reg are those of d
idevice_write_bits(d, addr1, addr2, lsb, bits, value) ==
    LET bit_mask      == bits_to_mask(bits)
        old_value     == read_reg(d, addr1, addr2)
        shifted_value == Shl(PyAnd(value, bit_mask), lsb)
        shifted_mask  == Shl(bit_mask, lsb)
        clear_mask    == PyAnd(PyNot(shifted_mask), 255)
        new_value     == PyOr(PyAnd(old_value, clear_mask), shifted_value)
    IN  write_reg(d, addr1, addr2, new_value)

(***************************************************************************)
(* The driver called with arbitrary integers: negative, wider than a byte, *)
(* wider than the register.                                                *)
(***************************************************************************)
AnyValues == {-1, 453}

\* mask given to write_bits
AnyMasks == {7}

AnyAddrs == {<<6, 1>>, <<16, 0>>}

AnyRegs == {<<"AG", "lo3">>, <<"P9", "wide">>}

NextBytes ==
    \/ NewExecutor
    \/ \E a \in AnyAddrs, v \in AnyValues : WriteReg(a[1], a[2], v)
    \/ \E a \in AnyAddrs, m \in AnyMasks, v \in AnyValues : WriteBits(a[1], a[2], m, v)
    \/ \E k \in AnyRegs, v \in AnyValues : RegWrite(k[1], k[2], v)
    \/ ClearWriteLog

SpecBytes == Init /\ [][NextBytes]_vars

(***************************************************************************)
(* Exports under several function indices: the default 1 and an index of   *)
(* three digits.                                                           *)
(***************************************************************************)
FuncIndexStarts == {1, 100}

ExportPaths == {"two_procs", "reset", "wide", "silent"}

NextExport ==
    \/ \E p \in ExportPaths : ExecuteScript(p)
    \/ \E p \in ExportPaths, i \in FuncIndexStarts : GenerateAves(p, i)
    \/ \E p \in ExportPaths, i \in FuncIndexStarts : GenerateAvesPerFunction(p, i)

SpecExport == Init /\ [][NextExport]_vars

(***************************************************************************)
(* The device manager as state.                                            *)
(***************************************************************************)
DeviceNames == {"tx", "rx"}

\* 'mock' opens; 'laser' is no driver type of the factory
DriverTypes == {"mock", "laser"}

NewDeviceManager(auto_open) ==
    /\ manager' = DeviceManager(auto_open)
    /\ last' = Call("DeviceManager", <<auto_open>>, "ok")
    /\ UNCHANGED <<xml_state, reg_map, i2c_mem, write_log, ret, exported>>

Register(name, driver_type) ==
    \E r \in {register(manager, name, driver_type)} :
        /\ manager' = r.m
        /\ last' = Call("register", <<name, driver_type>>, r.err)
        /\ UNCHANGED <<xml_state, reg_map, i2c_mem, write_log, ret, exported>>

GetItem(name) ==
    \E r \in {getitem(manager, name)} :
        /\ manager' = r.m
        /\ last' = Call("getitem", <<name>>, r.err)
        /\ UNCHANGED <<xml_state, reg_map, i2c_mem, write_log, ret, exported>>

Unregister(name) ==
    /\ manager' = unregister(manager, name)
    /\ last' = Call("unregister", <<name>>, "ok")
    /\ UNCHANGED <<xml_state, reg_map, i2c_mem, write_log, ret, exported>>

CloseAll ==
    /\ manager' = close_all(manager)
    /\ last' = Call("close_all", <<>>, "ok")
    /\ UNCHANGED <<xml_state, reg_map, i2c_mem, write_log, ret, exported>>

NextManager ==
    \/ \E b \in BOOLEAN : NewDeviceManager(b)
    \/ \E n \in DeviceNames, t \in DriverTypes : Register(n, t)
    \/ \E n \in DeviceNames : GetItem(n)
    \/ \E n \in DeviceNames : Unregister(n)
    \/ CloseAll

SpecManager == Init /\ [][NextManager]_vars

(***************************************************************************)
(* Loading other definition sources.  Fields that share a byte with        *)
(* non-zero defaults, in both orders; a register over a whole byte aliased *)
(* by a field of three of its bits, in both orders; a field whose literals *)
(* hold no address:value pair.                                             *)
(***************************************************************************)
XmlShared ==
    << [name |-> "AG",
        field |-> << Field("i2c_audio_format", <<3>>, << <<1536, 56>> >>, << <<1536, 3>> >>),
                     Field("lo3", <<5>>, << <<1537, 7>> >>, << <<1537, 0>> >>),
                     Field("hi1", <<1>>, << <<1537, 128>> >>, << <<1537, 7>> >>) >>],
       [name |-> "P9",
        field |-> << Field("wide", <<275>>, << <<2306, 255>>, <<2307, 3>> >>,
                                        << <<2306, 0>>, <<2307, -8>> >>) >>] >>

XmlSharedReversed ==
    << [name |-> "AG",
        field |-> << Field("hi1", <<1>>, << <<1537, 128>> >>, << <<1537, 7>> >>),
                     Field("lo3", <<5>>, << <<1537, 7>> >>, << <<1537, 0>> >>),
                     Field("i2c_audio_format", <<3>>, << <<1536, 56>> >>, << <<1536, 3>> >>) >>] >>

XmlAlias ==
    << [name |-> "AG",
        field |-> << Field("ctl", <<255>>, << <<1537, 255>> >>, << <<1537, 0>> >>),
                     Field("lo3", <<0>>, << <<1537, 7>> >>, << <<1537, 0>> >>) >>] >>

XmlAliasReversed ==
    << [name |-> "AG",
        field |-> << Field("lo3", <<0>>, << <<1537, 7>> >>, << <<1537, 0>> >>),
                     Field("ctl", <<255>>, << <<1537, 255>> >>, << <<1537, 0>> >>) >>] >>

XmlGhost ==
    << [name |-> "AG",
        field |-> << Field("lo3", <<5>>, << <<>>, <<1537, 7>>, <<>> >>, << <<1537, 0>>, <<>> >>),
                     Field("ghost", <<1>>, << <<>> >>, << >>),
                     Field("hi1", <<1>>, << <<1537, 128>> >>, << <<1537, 7>> >>) >>] >>

LoadSources == XmlStates \cup {XmlShared, XmlSharedReversed, XmlAlias,
                               XmlAliasReversed, XmlGhost}

\* register accesses made after loading
LoadCalls == {<<"AG", "lo3", 5>>, <<"AG", "ghost", 1>>, <<"AG", "ctl", 3>>,
              <<"P9", "wide", 19>>}

\* MockExecutor(xml_state_path) constructed over a definition source:
\* MockDriver() followed by init_from_xml_state
InitFromXmlState(xml) ==
    /\ xml_state' = xml
    /\ SetDriver(init_from_xml_state(NewDriver, xml))
    /\ last' = Call("init_from_xml_state", <<>>, "ok")
    /\ ret' = <<>>
    /\ UNCHANGED <<manager, exported>>

NextLoad ==
    \/ \E xml \in LoadSources : InitFromXmlState(xml)
    \/ \E c \in LoadCalls : RegWrite(c[1], c[2], c[3])
    \/ \E c \in LoadCalls : RegRead(c[1], c[2])

SpecLoad == Init /\ [][NextLoad]_vars

(***************************************************************************)
(* Properties of the register file                                         *)
(***************************************************************************)
DriverNext == [i2c_mem |-> i2c_mem', write_log |-> write_log', reg_map |-> reg_map']

RECURSIVE PopCount(_)
PopCount(m) == IF m = 0 THEN 0 ELSE (m % 2) + PopCount(m \div 2)

RECURSIVE WidthUpto(_, _)
WidthUpto(field, n) ==
    IF n = 0 THEN 0 ELSE WidthUpto(field, n - 1) + PopCount(field.masks[n][2])

\* number of bits a register declares: the bits of all its masks
DeclaredWidth(field) == WidthUpto(field, Len(field.masks))

Known(k) == k \in DOMAIN reg_map

LastKey == <<last.args[1], last.args[2]>>

ByteOf(addr) == <<addr1_of(addr), addr2_of(addr)>>

BytesOf(field) == {ByteOf(field.masks[i][1]) : i \in 1..Len(field.masks)}

\* the bits register `field` owns in byte b (0 when it does not touch b)
MaskAt(field, b) ==
    IF b \in BytesOf(field)
    THEN field.masks[CHOOSE i \in 1..Len(field.masks) : ByteOf(field.masks[i][1]) = b][2]
    ELSE 0

IsPrefix(s, t) == Len(s) <= Len(t) /\ SubSeq(t, 1, Len(s)) = s

\* C1: after reg_write(page, reg, v) with v within the register's declared
\* width, reg_read(page, reg) returns v.
RoundTrip ==
    (/\ last.op = "reg_write"
     /\ last.err = "ok"
     /\ last.args[3] < 2 ^ DeclaredWidth(reg_map[LastKey]))
    => reg_read(Driver, last.args[1], last.args[2]).ret = last.args[3]

\* C2: a reg_write on register A leaves the value read for every register
\* that shares no byte with A unchanged, changes no byte A does not touch and
\* in a byte A touches only the bits of A's mask; mask 0x07 at 0x0601 over
\* byte 0x80 with value 5 gives 0x85 and the trace entry (0x06, 0x01, 0x85).
ByteIsolation ==
    [][(last'.op = "reg_write" /\ last'.err = "ok") =>
        LET A == reg_map[<<last'.args[1], last'.args[2]>>]
        IN  /\ \A k \in DOMAIN reg_map :
                 BytesOf(reg_map[k]) \cap BytesOf(A) = {} =>
                     reg_read(DriverNext, k[1], k[2]) = reg_read(Driver, k[1], k[2])
            /\ \A b \in DOMAIN i2c_mem' \cup DOMAIN i2c_mem :
                 PyAnd(read_reg(DriverNext, b[1], b[2]), PyNot(MaskAt(A, b)))
                   = PyAnd(read_reg(Driver, b[1], b[2]), PyNot(MaskAt(A, b)))
            /\ (/\ last'.args = <<"AG", "lo3", 5>>
                /\ read_reg(Driver, 6, 1) = 128)
               => /\ read_reg(DriverNext, 6, 1) = 133
                  /\ write_log' = Append(write_log, <<6, 1, 133>>)
      ]_vars

\* C2 witness: lo3 (mask 0x07) was written with 5 over 0x80, hi1 still reads 1
ByteIsolationWitness ==
    /\ last = Call("reg_write", <<"AG", "lo3", 5>>, "ok")
    /\ read_reg(Driver, 6, 1) = 133
    /\ write_log # <<>>
    /\ write_log[Len(write_log)] = <<6, 1, 133>>
    /\ reg_read(Driver, "AG", "hi1").ret = 1

\* C3: every byte write appends exactly one entry at the end of write_log and
\* no earlier entry is changed, removed or moved, except by clear_write_log.
AppendOnly ==
    [][/\ last'.op # "clear_write_log" => IsPrefix(write_log, write_log')
       /\ last'.op = "write_reg" =>
             write_log' = Append(write_log,
                 <<last'.args[1], last'.args[2], PyAnd(last'.args[3], 255)>>)
       /\ last'.op = "write_bits" =>
             /\ Len(write_log') = Len(write_log) + 1
             /\ write_log'[Len(write_log')][1] = last'.args[1]
             /\ write_log'[Len(write_log')][2] = last'.args[2]
       /\ (last'.op = "reg_write" /\ last'.err = "ok") =>
             Len(write_log') = Len(write_log)
                 + Len(reg_map[<<last'.args[1], last'.args[2]>>].masks)
       /\ last'.op = "clear_write_log" => write_log' = <<>>
      ]_vars

\* C3 witness: a raw byte write was appended behind an earlier entry
AppendOnlyWitness ==
    /\ last.op = "write_reg"
    /\ Len(write_log) = 2
    /\ write_log[1] # write_log[2]

\* C4: read_reg, reg_read and get_write_log change neither the write trace
\* nor any memory cell; an address never seeded or written reads as 0.
ReadsDoNotMutate ==
    [][last'.op \in {"read_reg", "reg_read", "get_write_log"} =>
        /\ i2c_mem' = i2c_mem
        /\ write_log' = write_log
        /\ (last'.op = "read_reg" /\ <<last'.args[1], last'.args[2]>> \notin DOMAIN i2c_mem)
             => ret' = <<0>>
        /\ last'.op = "get_write_log" => ret' = <<"list", write_log>>
      ]_vars

\* C4 witness: an address that holds no cell was read, and still holds none
ReadsDoNotMutateWitness ==
    /\ last = Call("read_reg", <<16, 0>>, "ok")
    /\ <<16, 0>> \notin DOMAIN i2c_mem
    /\ ret = <<0>>
    /\ write_log # <<>>

\* C5: reg_write on a register with n descriptors appends exactly n entries,
\* the i-th at the i-th declared byte, holding that byte's previous value with
\* only the descriptor's mask bits replaced, also when the byte keeps its value.
OneEntryPerDescriptor ==
    [][(last'.op = "reg_write" /\ last'.err = "ok") =>
        LET field == reg_map[<<last'.args[1], last'.args[2]>>]
            n     == Len(field.masks)
            base  == Len(write_log)
        IN  /\ Len(write_log') = base + n
            /\ \A i \in 1..n :
                 LET e    == write_log'[base + i]
                     b    == ByteOf(field.masks[i][1])
                     mask == field.masks[i][2]
                 IN  /\ <<e[1], e[2]>> = b
                     /\ PyAnd(e[3], PyNot(mask))
                          = PyAnd(read_reg(Driver, b[1], b[2]), PyNot(mask))
                     /\ read_reg(DriverNext, b[1], b[2]) = e[3]
      ]_vars

\* C5 witness: the same register write twice, the second left the byte as it was
OneEntryPerDescriptorWitness ==
    /\ last.op = "reg_write"
    /\ last.err = "ok"
    /\ Len(write_log) = 2
    /\ write_log[1] = write_log[2]

\* C6: a reg_write whose value exceeds the register's declared width raises
\* an error instead of writing the value with its excess bits masked away.
NoSilentTruncation ==
    (/\ last.op = "reg_write"
     /\ Known(LastKey)
     /\ last.args[3] >= 2 ^ DeclaredWidth(reg_map[LastKey]))
    => last.err # "ok"

\* C10: reg_write or reg_read of a (page, register) pair that is not in the
\* model raises ValueError and changes no memory cell and no trace entry.
UnknownRegisterRejected ==
    [][(/\ last'.op \in {"reg_write", "reg_read"}
        /\ <<last'.args[1], last'.args[2]>> \notin DOMAIN reg_map)
       => /\ last'.err = "ValueError"
          /\ ret' = <<>>
          /\ i2c_mem' = i2c_mem
          /\ write_log' = write_log
      ]_vars

\* C10 witness: a write to an unknown register was rejected, the trace kept
UnknownRegisterRejectedWitness ==
    /\ last.op = "reg_write"
    /\ last.err = "ValueError"
    /\ ~Known(LastKey)
    /\ write_log # <<>>

(***************************************************************************)
(* Properties of the interpreter and exporter                              *)
(***************************************************************************)
LastScript == Scripts[last.args[1]]

\* the seeded default image a new MockExecutor starts from
FreshDriver == init_from_xml_state(NewDriver, xml_state)

\* the byte writes of one per-procedure iteration started from the seeded
\* default image: the script is executed, then the procedure is called
FreshProcedureTrace(script, func_name) ==
    exec_and_call(FreshDriver, script, func_name).d.write_log

HeaderNames(lines) == {lines[i].name : i \in {j \in 1..Len(lines) : lines[j].t = "hdr"}}

NumHeaders(lines) == Cardinality({j \in 1..Len(lines) : lines[j].t = "hdr"})

SeqToSet(q) == {q[i] : i \in 1..Len(q)}

\* C7: in generate_aves_per_function every procedure starts from the seeded
\* default image: the byte writes of each exported block are the ones the
\* procedure produces from that image, whatever was executed before it.
PerProcedureReset ==
    (/\ last.op = "generate_aves_per_function"
     /\ last.err = "ok"
     /\ function_names(LastScript) # <<>>)
    => \A blk \in SeqToSet(parse_aves_script(exported)) :
          blk[3] = B0Lines(FreshProcedureTrace(LastScript, blk[2]), ";")

\* C8: generate_aves_per_function exports one block per procedure of the
\* script, also for a procedure without writes, and _parse_aves_script
\* recovers as many procedures from the export.
BlockPerProcedure ==
    (/\ last.op = "generate_aves_per_function"
     /\ last.err = "ok"
     /\ function_names(LastScript) # <<>>)
    => /\ SeqToSet(function_names(LastScript)) \subseteq HeaderNames(exported)
       /\ NumHeaders(exported) = Len(function_names(LastScript))
       /\ Len(parse_aves_script(exported)) = Len(function_names(LastScript))

\* C9: a second execute_script (generate_aves) of the same script on the
\* same MockExecutor returns the same trace (writes the same text) as the
\* run before it.
TraceDeterminism ==
    [][/\ (last.op = "execute_script" /\ last.err = "ok" /\ last' = last)
          => ret' = ret
       /\ (last.op = "generate_aves" /\ last.err = "ok" /\ last' = last)
          => exported' = exported
      ]_vars

(***************************************************************************)
(* Properties of unknown accesses and of merge mode                        *)
(***************************************************************************)
\* the procedures bound after the first n items of the script
RECURSIVE EnvAfter(_, _)
EnvAfter(script, n) ==
    IF n = 0 THEN EmptyMap
    ELSE IF script[n].k = "def"
    THEN MapPut(EnvAfter(script, n - 1), script[n].name, script[n].body)
    ELSE EnvAfter(script, n - 1)

\* the register accesses a statement list performs in program order, the
\* calls between procedures followed
RECURSIVE ProgramOrder(_, _, _)
ProgramOrder(env, stmts, fuel) ==
    IF stmts = <<>> THEN <<>>
    ELSE (IF Head(stmts).k = "w" THEN <<Head(stmts)>>
          ELSE IF Head(stmts).f \in DOMAIN env /\ fuel > 0
          THEN ProgramOrder(env, env[Head(stmts).f], fuel - 1)
          ELSE <<>>)
         \o ProgramOrder(env, Tail(stmts), fuel)

\* the accesses executing the first n items of the script performs
RECURSIVE ModuleOrder(_, _)
ModuleOrder(script, n) ==
    IF n = 0 THEN <<>>
    ELSE ModuleOrder(script, n - 1)
         \o (IF script[n].k = "def" THEN <<>>
             ELSE ProgramOrder(EnvAfter(script, n - 1), <<script[n]>>, MaxCallDepth))

\* the accesses of a call of one procedure after the script was executed
CallOrder(script, func_name) ==
    ProgramOrder(EnvAfter(script, Len(script)),
                 EnvAfter(script, Len(script))[func_name], MaxCallDepth)

IsUnknown(w) == <<w.if_name, w.reg_name>> \notin DOMAIN reg_map

\* the accesses the statically interpreted procedure bodies name
RECURSIVE NamedWrites(_)
NamedWrites(script) ==
    IF script = <<>> THEN <<>>
    ELSE (IF Head(script).k = "def" THEN body_calls(Head(script).body) ELSE <<>>)
         \o NamedWrites(Tail(script))

\* the run of that operation over the script reaches an access to a
\* (page, register) pair that is in no definition source
ReachesUnknown(op, script) ==
    IF op = "build_aves"
    THEN \E w \in SeqToSet(NamedWrites(script)) : IsUnknown(w)
    ELSE \/ \E w \in SeqToSet(ModuleOrder(script, Len(script))) : IsUnknown(w)
         \/ /\ op = "generate_aves_per_function"
            /\ \E f \in SeqToSet(function_names(script)) :
                  \E w \in SeqToSet(CallOrder(script, f)) : IsUnknown(w)

\* C11: a run that reaches an access to an unknown (page, register) pair
\* stops there with an error, whether the script is executed (execute_script,
\* generate_aves, generate_aves_per_function) or statically interpreted
\* (build_aves): the access is never passed over silently.
UnknownIsHardStop ==
    (/\ last.op \in {"execute_script", "generate_aves",
                     "generate_aves_per_function", "build_aves"}
     /\ ReachesUnknown(last.op, LastScript))
    => last.err # "ok"

\* the driver after the writes were made through reg_write, in order
RECURSIVE replay_writes(_, _)
replay_writes(d, writes) ==
    IF writes = <<>> THEN d
    ELSE replay_writes(reg_write(d, Head(writes)[1], Head(writes)[2], Head(writes)[3]).d,
                       Tail(writes))

\* the body of the first procedure of that name
BodyOf(script, name) ==
    script[CHOOSE i \in 1..Len(script) :
               /\ script[i].k = "def" /\ script[i].name = name
               /\ \A j \in 1..(i - 1) : ~(script[j].k = "def" /\ script[j].name = name)].body

\* the byte addresses the writes touch, as <<addr1, addr2>>
TouchedBytes(writes) ==
    UNION {BytesOf(reg_map[<<writes[i][1], writes[i][2]>>]) : i \in 1..Len(writes)}

\* C18: for a procedure of literal writes to known registers build_aves
\* outputs every touched byte exactly once, with the value the byte holds
\* after the same writes were made through MockDriver.reg_write from the
\* default image.
MergeMatchesDriver ==
    (last.op = "build_aves" /\ ~ReachesUnknown("build_aves", LastScript))
    => \A blk \in SeqToSet(parse_aves_script(exported)) :
          LET writes == find_reg_writes(BodyOf(LastScript, blk[2]))
              final  == replay_writes(FreshDriver, writes)
          IN  /\ Len(blk[3]) = Cardinality(TouchedBytes(writes))
              /\ \A b \in TouchedBytes(writes) :
                    \E i \in 1..Len(blk[3]) :
                        /\ blk[3][i].addr = Hex(b[1] * 256 + b[2], 4)
                        /\ blk[3][i].value = Hex(read_reg(final, b[1], b[2]), 2)

(***************************************************************************)
(* Properties of the two export modes                                      *)
(***************************************************************************)
\* accesses as (page, register, value) triples
Triples(ws) == [i \in 1..Len(ws) |-> <<ws[i].if_name, ws[i].reg_name, ws[i].value>>]

\* the byte addresses the accesses write, one per descriptor, in order
RECURSIVE DescriptorBytes(_)
DescriptorBytes(ws) ==
    IF ws = <<>> THEN <<>>
    ELSE LET masks == reg_map[<<Head(ws).if_name, Head(ws).reg_name>>].masks
         IN  [i \in 1..Len(masks) |-> Hex(masks[i][1], 4)] \o DescriptorBytes(Tail(ws))

\* the exported text cut into blocks at the headers: <<name, write lines>>
RECURSIVE BlocksOf(_, _)
BlocksOf(lines, n) ==
    IF n = 0 THEN <<>>
    ELSE LET prev == BlocksOf(lines, n - 1)
         IN  IF lines[n].t = "hdr" THEN Append(prev, <<lines[n].name, <<>>>>)
             ELSE IF lines[n].t = "B0" /\ prev # <<>>
             THEN [prev EXCEPT ![Len(prev)] = <<@[1], Append(@[2], lines[n])>>]
             ELSE prev

ExportedBlocks == BlocksOf(exported, Len(exported))

AddrsOf(cmds) == [i \in 1..Len(cmds) |-> cmds[i].addr]

ValuesOf(cmds) == [i \in 1..Len(cmds) |-> cmds[i].value]

\* the accesses one iteration of the per-procedure loop executes
IterationOrder(script, f) == ModuleOrder(script, Len(script)) \o CallOrder(script, f)

\* the procedures whose iteration writes at least one byte, in source order
RECURSIVE WritingFunctions(_, _)
WritingFunctions(script, fs) ==
    IF fs = <<>> THEN <<>>
    ELSE (IF DescriptorBytes(IterationOrder(script, Head(fs))) # <<>>
          THEN <<Head(fs)>> ELSE <<>>) \o WritingFunctions(script, Tail(fs))

NoCrossBlockLeakage ==
    (/\ last.op = "generate_aves_per_function"
     /\ last.err = "ok"
     /\ function_names(LastScript) # <<>>)
    => \A i \in 1..Len(ExportedBlocks) :
          AddrsOf(ExportedBlocks[i][2])
            = DescriptorBytes(CallOrder(LastScript, ExportedBlocks[i][1]))

\* C20: in whole-script mode all procedures work on one address space: the
\* trace of execute_script / generate_aves is the trace of the accesses in
\* execution order, each read-modify-write made on the bytes the earlier
\* accesses of the run left, and the memory afterwards holds them all.
SharedAddressSpace ==
    [][(last'.op \in {"execute_script", "generate_aves"} /\ last'.err = "ok") =>
        LET script == Scripts[last'.args[1]]
            d      == replay_writes(clear_write_log(Driver),
                                    Triples(ModuleOrder(script, Len(script))))
        IN  /\ write_log' = d.write_log
            /\ i2c_mem' = d.i2c_mem
            /\ last'.op = "execute_script" => ret' = <<"list", d.write_log>>
            /\ (last'.op = "generate_aves" /\ d.write_log # <<>>) =>
                  /\ Len(exported') = Len(d.write_log) + 2
                  /\ \A i \in 1..Len(d.write_log) :
                        exported'[i + 1].value = Hex(d.write_log[i][3], 2)
      ]_vars

\* C20 witness: procedure b cleared hi1 after procedure a had set lo3 to 5:
\* its byte write is 0x05, not 0x00, and one trace holds all three writes
SharedAddressSpaceWitness ==
    /\ last = Call("execute_script", <<"main">>, "ok")
    /\ ret = <<"list", << <<6, 1, 133>>, <<6, 1, 5>>, <<6, 1, 5>> >> >>
    /\ read_reg(Driver, 6, 1) = 5

(***************************************************************************)
(* Properties of the rewriter                                              *)
(***************************************************************************)
Rewrote == last'.op = "replace_autoclass_calls"

InputLines == Files[last'.args[1]]

\* the rewriter's table has an entry for (page, register)
RewriterKnows(page, reg) == get_register_info(xml_state, page, reg) # <<>>

Matches(line) == \E j \in 1..Len(line.segs) : line.segs[j].k = "acc"

\* the access the rewriter acts on in a line that has one
AccessOf(line) == line.segs[CHOOSE j \in 1..Len(line.segs) :
                                /\ line.segs[j].k = "acc"
                                /\ \A h \in 1..(j - 1) : line.segs[h].k # "acc"]

NamesUnknownPair(line) ==
    Matches(line) /\ ~RewriterKnows(AccessOf(line).page, AccessOf(line).reg)

\* number of bytes the register of the access contributes to
ContributingBytes(acc) == Len(get_register_info(xml_state, acc.page, acc.reg))

\* number of output lines a line of the input stands for
GroupSize(line) ==
    IF ~Matches(line) \/ NamesUnknownPair(line) THEN 1
    ELSE IF AccessOf(line).op = "w" THEN 1 + ContributingBytes(AccessOf(line))
    ELSE IF ContributingBytes(AccessOf(line)) = 1 THEN 1
    ELSE 1 + ContributingBytes(AccessOf(line))

\* number of output lines that stand for the input lines before line i
RECURSIVE Offset(_, _)
Offset(lines, i) == IF i <= 1 THEN 0 ELSE Offset(lines, i - 1) + GroupSize(lines[i - 1])

Range(s) == {s[i] : i \in DOMAIN s}

\* a known access the rewriter cannot turn into numerals: a write whose
\* argument is no numeral, or a descriptor without mask or shift text
NeedsNumeral(line) ==
    /\ Matches(line)
    /\ ~NamesUnknownPair(line)
    /\ \/ AccessOf(line).op = "w" /\ AccessOf(line).args.form = "expr"
       \/ \E r \in Range(get_register_info(xml_state, AccessOf(line).page,
                                           AccessOf(line).reg)) :
              r.byte_shift = <<>> \/ (AccessOf(line).op = "w" /\ r.byte_mask = <<>>)

\* C12: an access naming an unknown (page, register) pair becomes an error
\* marker with the indentation of its line at the place of that line, every
\* line of the file is still emitted, and a rewrite never aborts because of
\* such an access: when it aborts, a known access needed a numeral it did
\* not get
UnknownBecomesMarker ==
    [][Rewrote =>
        /\ last'.err = "ok" =>
              /\ Len(exported') = Offset(InputLines, Len(InputLines) + 1)
              /\ \A i \in 1..Len(InputLines) :
                    NamesUnknownPair(InputLines[i]) =>
                        exported'[Offset(InputLines, i) + 1]
                          = Line(InputLines[i].indent,
                                 <<[k |-> "# ERROR",
                                    page |-> AccessOf(InputLines[i]).page,
                                    reg |-> AccessOf(InputLines[i]).reg]>>)
        /\ last'.err # "ok" =>
              \E i \in 1..Len(InputLines) : NeedsNumeral(InputLines[i])]_vars

\* a rewrite has gone past an unknown write nested at depth 8 and emitted
\* the read and the text line after it
UnknownBecomesMarkerWitness ==
    /\ last = Call("replace_autoclass_calls", <<"mixed">>, "ok")
    /\ Len(exported) = 7
    /\ exported[5] = Line(8, <<[k |-> "# ERROR", page |-> "AG", reg |-> "nosuch"]>>)
    /\ exported[6].segs[1].k = "rb ="
    /\ exported[7] = Line(0, <<Text("# end")>>)

\* the (page, register) an output line refers to, <<>> when it names none
Names(out) ==
    IF out.segs[1].k \in {"# ERROR", "# w"} THEN <<out.segs[1].page, out.segs[1].reg>>
    ELSE IF out.segs[1].k \in {"rb =", "rb = 0", "rb |="} THEN <<out.segs[1].reg>>
    ELSE <<>>

\* C13: a line without symbolic access is emitted unchanged, indentation
\* included, and the lines emitted for a matched line stand at that line's
\* place with its indentation, the first of them naming its register, so
\* that lines and accesses keep their order
NonMatchingLinesKept ==
    [][(Rewrote /\ last'.err = "ok") =>
        /\ Len(exported') = Offset(InputLines, Len(InputLines) + 1)
        /\ \A i \in 1..Len(InputLines) :
              LET at == Offset(InputLines, i)
              IN  IF ~Matches(InputLines[i])
                  THEN exported'[at + 1] = InputLines[i]
                  ELSE /\ \A j \in 1..GroupSize(InputLines[i]) :
                              /\ exported'[at + j].indent = InputLines[i].indent
                              /\ exported'[at + j].segs[1].k # "text"
                       /\ Names(exported'[at + 1])[Len(Names(exported'[at + 1]))]
                            = AccessOf(InputLines[i]).reg]_vars

\* text lines at depth 0 and 4 stand around the two lines of a write
NonMatchingLinesKeptWitness ==
    /\ last = Call("replace_autoclass_calls", <<"mixed">>, "ok")
    /\ exported[1] = Line(0, <<Text("def cfg():")>>)
    /\ exported[2].segs[1].k = "# w" /\ exported[2].indent = 4
    /\ exported[3].segs[1].k = "write_bits" /\ exported[3].indent = 4
    /\ exported[4] = Line(4, <<Text("time.sleep(1)")>>)

\* the registers of the symbolic accesses of a line, in the order written
RECURSIVE AccessRegs(_)
AccessRegs(segs) ==
    IF segs = <<>> THEN <<>>
    ELSE (IF Head(segs).k = "acc" THEN <<Head(segs).reg>> ELSE <<>>)
         \o AccessRegs(Tail(segs))

RECURSIVE AccessesInSource(_)
AccessesInSource(lines) ==
    IF lines = <<>> THEN <<>>
    ELSE AccessRegs(Head(lines).segs) \o AccessesInSource(Tail(lines))

\* the registers of the groups of an output, in the order emitted: a group
\* begins with a marker, a write comment or the assignment of a read
RECURSIVE GroupsInOutput(_)
GroupsInOutput(out) ==
    IF out = <<>> THEN <<>>
    ELSE (IF Head(out).segs[1].k \in {"# ERROR", "# w", "rb =", "rb = 0"}
          THEN <<Head(out).segs[1].reg>> ELSE <<>>)
         \o GroupsInOutput(Tail(out))

\* C14: every occurrence of a symbolic access is replaced, also when a line
\* holds several: the output has one group of operations per occurrence, in
\* source order
EveryOccurrenceReplaced ==
    [][(Rewrote /\ last'.err = "ok") =>
        GroupsInOutput(exported') = AccessesInSource(InputLines)]_vars

\* no access of the file touches a descriptor without mask or shift text
TableComplete(lines) ==
    \A i \in 1..Len(lines) :
        Matches(lines[i]) =>
            \A r \in Range(get_register_info(xml_state, AccessOf(lines[i]).page,
                                             AccessOf(lines[i]).reg)) :
                r.byte_shift # <<>> /\ r.byte_mask # <<>>

\* C15: a write to a known register is rewritten whether its argument is a
\* numeral or an expression, into one write per contributing byte, in the
\* order of the bytes
WritePerContributingByte ==
    [][(Rewrote /\ TableComplete(InputLines)) =>
        \A i \in 1..Len(InputLines) :
            LET line == InputLines[i]
            IN  (Matches(line) /\ ~NamesUnknownPair(line) /\ AccessOf(line).op = "w") =>
                    /\ last'.err = "ok"
                    /\ \A b \in 1..ContributingBytes(AccessOf(line)) :
                          LET out  == exported'[Offset(InputLines, i) + 1 + b].segs[1]
                              info == get_register_info(xml_state, AccessOf(line).page,
                                                        AccessOf(line).reg)[b]
                          IN  /\ out.k = "write_bits"
                              /\ <<out.addr1, out.addr2>>
                                   = <<Hex(addr1_of(info.byte_address), 2),
                                       Hex(addr2_of(info.byte_address), 2)>>]_vars

\* int(text, 16) of a 0xNN text
RECURSIVE FromHex(_)
FromHex(ds) == IF ds = <<>> THEN 0 ELSE 16 * FromHex(SubSeq(ds, 1, Len(ds) - 1)) + ds[Len(ds)]

\* the value of one emitted sub-expression on the memory of driver d
EvalReadCmd(d, cmd) ==
    LET byte   == read_reg(d, FromHex(cmd.addr1), FromHex(cmd.addr2))
        masked == IF cmd.byte_mask_str = <<>> THEN byte
                  ELSE PyAnd(byte, cmd.byte_mask_str[2][1])
    IN  IF cmd.shift_str = <<>> THEN masked
        ELSE IF cmd.shift_str[1] = "<<" THEN Shl(masked, cmd.shift_str[2])
        ELSE Shr(masked, cmd.shift_str[2])

\* the value of rb_<reg> after the first n lines of a group run on d
RECURSIVE EvalReadGroup(_, _, _)
EvalReadGroup(d, group, n) ==
    IF n = 0 THEN 0
    ELSE LET c == group[n].segs[1]
         IN  IF c.k = "rb =" THEN EvalReadCmd(d, c.cmd)
             ELSE IF c.k = "rb = 0" THEN 0
             ELSE PyOr(EvalReadGroup(d, group, n - 1), EvalReadCmd(d, c.cmd))

SubExpressions(group) ==
    Cardinality({j \in 1..Len(group) : group[j].segs[1].k \in {"rb =", "rb |="}})

\* no known write of the file has an argument that is no numeral
ArgumentsNumeral(lines) ==
    \A i \in 1..Len(lines) :
        (Matches(lines[i]) /\ ~NamesUnknownPair(lines[i]) /\ AccessOf(lines[i]).op = "w")
            => AccessOf(lines[i]).args.form # "expr"

\* C16: a read of a register of the field model is rewritten into one
\* sub-expression per contributing byte, and on the memory of the device
\* the lines emitted give rb_<reg> the value reg_read returns
ReadExpressionIsRegRead ==
    [][(Rewrote /\ ArgumentsNumeral(InputLines)) =>
        \A i \in 1..Len(InputLines) :
            LET line == InputLines[i]
            IN  (/\ Matches(line)
                 /\ AccessOf(line).op = "r"
                 /\ <<AccessOf(line).page, AccessOf(line).reg>> \in DOMAIN reg_map') =>
                    /\ last'.err = "ok"
                    /\ LET at    == Offset(InputLines, i)
                           group == SubSeq(exported', at + 1, at + GroupSize(line))
                           field == reg_map'[<<AccessOf(line).page, AccessOf(line).reg>>]
                       IN  /\ SubExpressions(group) = Len(field.masks)
                           /\ EvalReadGroup(DriverNext, group, Len(group))
                                = reg_read(DriverNext, AccessOf(line).page,
                                           AccessOf(line).reg).ret]_vars

(***************************************************************************)
(* Properties of loading                                                   *)
(***************************************************************************)
Loaded == last'.op = "init_from_xml_state"

\* encode of the specification
Encode(v, mask, shift) ==
    IF shift < 0 THEN PyAnd(Shr(v, -shift), mask) ELSE PyAnd(Shl(v, shift), mask)

\* the descriptors of a definition source: one for every byte of every field
\* with a caption, with the default value of the field
DescriptorsOf(xml) ==
    UNION { UNION { LET f == xml[p].field[j]
                        masks  == parse_hex_dict(f.mask)
                        shifts == parse_hex_dict(f.shift)
                    IN  IF f.caption = "" THEN {}
                        ELSE { [page |-> xml[p].name, reg |-> f.caption,
                                addr |-> masks[b][1], mask |-> masks[b][2],
                                shift |-> DictGet(shifts, masks[b][1], 0),
                                default |-> default_int(f.defaultvalue)] :
                               b \in 1..Len(masks) } :
                    j \in 1..Len(xml[p].field) } :
            p \in 1..Len(xml) }

\* bitwise OR of a finite set of integers
RECURSIVE OrAll(_)
OrAll(S) == IF S = {} THEN 0
            ELSE LET x == CHOOSE y \in S : TRUE IN PyOr(x, OrAll(S \ {x}))

\* the OR of the default contributions of the descriptors in D
OrMerge(D) == OrAll({Encode(desc.default, desc.mask, desc.shift) : desc \in D})

\* C21: after loading, every cell of the driver and every byte of the static
\* generator is the OR of encode(default, mask, shift) over the descriptors
\* that target it, no other cell exists, and the trace is empty
DefaultImageIsOrMerge ==
    [][Loaded =>
        LET D == DescriptorsOf(xml_state')
            g == AVESGenerator(xml_state')
        IN  /\ write_log' = <<>>
            /\ DOMAIN i2c_mem' = {ByteOf(desc.addr) : desc \in D}
            /\ \A c \in DOMAIN i2c_mem' :
                  i2c_mem'[c] = OrMerge({desc \in D : ByteOf(desc.addr) = c})
            /\ DOMAIN g.default_bytes = {<<desc.page, desc.addr>> : desc \in D}
            /\ \A k \in DOMAIN g.default_bytes :
                  g.default_bytes[k]
                    = OrMerge({desc \in D : <<desc.page, desc.addr>> = k})]_vars

\* C22: a field at byte 0x0600 with mask 0x38, shift 0 and default 0x3 seeds
\* the bits 0x18 of the byte at (0x06, 0x00)
SeedingExample ==
    [][(/\ Loaded
        /\ \E desc \in DescriptorsOf(xml_state') :
              /\ desc.addr = 1536 /\ desc.mask = 56
              /\ desc.shift = 0 /\ desc.default = 3) =>
        /\ <<6, 0>> \in DOMAIN i2c_mem'
        /\ PyAnd(i2c_mem'[<<6, 0>>], 24) = 24]_vars

(***************************************************************************)
(* The worked examples                                                     *)
(***************************************************************************)
\* the register P9.wide is declared at 0x0902 (mask 0xFF, shift 0) and
\* 0x0903 (mask 0x03, shift -8)
WideDeclared ==
    {[addr |-> desc.addr, mask |-> desc.mask, shift |-> desc.shift] :
        desc \in {x \in DescriptorsOf(xml_state) : x.page = "P9" /\ x.reg = "wide"}}
      = {[addr |-> 2306, mask |-> 255, shift |-> 0],
         [addr |-> 2307, mask |-> 3, shift |-> -8]}

WroteWide19 == WideDeclared /\ last' = Call("reg_write", <<"P9", "wide", 19>>, "ok")

\* C23 as stated: reg_write of 0x013 to the two-byte field appends
\* (0x09, 0x02, 0x13) and then (0x09, 0x03, 0x01)
MultiByteExample ==
    [][WroteWide19 =>
        write_log' = write_log \o << <<9, 2, 19>>, <<9, 3, 1>> >>]_vars

\* C23 amended: reg_write of 0x013 to the two-byte field appends
\* (0x09, 0x02, 0x13) and then (0x09, 0x03, b), b being the previous byte at
\* (0x09, 0x03) with its two low bits cleared, since 0x013 >> 8 = 0
MultiByteExampleAmended ==
    [][WroteWide19 =>
        write_log' = write_log \o << <<9, 2, 19>>,
                                     <<9, 3, PyAnd(read_reg(Driver, 9, 3), 252)>> >>]_vars

\* the write was made on a device whose byte (0x09, 0x03) was seeded with 1
MultiByteExampleWitness ==
    /\ xml_state = XmlShared
    /\ last = Call("reg_write", <<"P9", "wide", 19>>, "ok")
    /\ write_log = << <<9, 2, 19>>, <<9, 3, 0>> >>
    /\ read_reg(Driver, 9, 3) = 0

\* the field of the seeding example: byte 0x0600, mask 0x38, shift 0
FormatDeclared ==
    get_register_info(xml_state, "AG", "i2c_audio_format")
      = << [register_name |-> "i2c_audio_format", byte_address |-> 1536,
            byte_mask |-> <<56>>, byte_shift |-> <<0>>] >>

\* C24: the write of the literal 0x3 to the 3-bit field at bit 3 of byte
\* (0x06, 0x00) is rewritten into write_bits(0x06, 0x00, 3, 3, 3), and the
\* position and width emitted for a write give back the mask
RewriterExample ==
    [][(Rewrote /\ last'.args = <<"format">> /\ FormatDeclared) =>
        /\ last'.err = "ok"
        /\ Len(exported') = 2
        /\ exported'[2]
             = Line(0, <<[k |-> "write_bits", addr1 |-> Hex(6, 2), addr2 |-> Hex(0, 2),
                          lsb |-> 3, bits |-> 3, value |-> 3]>>)
        /\ Shl(Shl(1, exported'[2].segs[1].bits) - 1, exported'[2].segs[1].lsb) = 56]_vars

\* the fields with a caption whose mask and shift literals hold no
\* address:value pair
ZeroPairFields(xml) ==
    UNION { { <<xml[p].name, xml[p].field[j].caption>> :
              j \in { h \in 1..Len(xml[p].field) :
                        /\ xml[p].field[h].caption # ""
                        /\ \A t \in Range(xml[p].field[h].mask) : Len(t) # 2
                        /\ \A t \in Range(xml[p].field[h].shift) : Len(t) # 2 } } :
            p \in 1..Len(xml) }

\* the pairs of a literal, whatever stands between them
RECURSIVE PairsIn(_)
PairsIn(lit) ==
    IF lit = <<>> THEN <<>>
    ELSE (IF Len(Head(lit)) = 2 THEN <<Head(lit)>> ELSE <<>>) \o PairsIn(Tail(lit))

\* C25: loading extracts the pairs of a literal whatever surrounds them; a
\* field without pairs seeds no cell and is absent from the model: the
\* rewriter does not find it, and reg_write and reg_read on it fail as on a
\* register that was never declared, changing nothing
TolerantLoading ==
    [][/\ Loaded =>
            /\ \A k \in DOMAIN reg_map' :
                  \E p \in 1..Len(xml_state') : \E j \in 1..Len(xml_state'[p].field) :
                      /\ k = <<xml_state'[p].name, xml_state'[p].field[j].caption>>
                      /\ Range(reg_map'[k].masks) \subseteq Range(PairsIn(xml_state'[p].field[j].mask))
            /\ DOMAIN i2c_mem' = {ByteOf(desc.addr) : desc \in DescriptorsOf(xml_state')}
            /\ \A k \in ZeroPairFields(xml_state') :
                  get_register_info(xml_state', k[1], k[2]) = <<>>
       /\ (/\ last'.op \in {"reg_write", "reg_read"}
           /\ <<last'.args[1], last'.args[2]>> \in ZeroPairFields(xml_state)) =>
            /\ last'.err = "ValueError"
            /\ UNCHANGED <<i2c_mem, write_log>>]_vars

(***************************************************************************)
(* The rewriter against the driver                                         *)
(***************************************************************************)
\* the device after the first n lines of an emitted group have run on d
RECURSIVE RunEmitted(_, _, _)
RunEmitted(d, group, n) ==
    IF n = 0 THEN d
    ELSE LET c    == group[n].segs[1]
             prev == RunEmitted(d, group, n - 1)
         IN  IF c.k = "write_bits"
             THEN idevice_write_bits(prev, FromHex(c.addr1), FromHex(c.addr2),
                                     c.lsb, c.bits, c.value)
             ELSE prev

\* C26: for a write of a numeral within the declared width of a register of
\* the field model, the write_bits lines the rewriter emits, run through
\* IDevice.write_bits on the memory of the device, leave in every byte of the
\* register the value reg_write leaves there
RewriterAgreesWithDriver ==
    [][(Rewrote /\ last'.err = "ok") =>
        \A i \in 1..Len(InputLines) :
            LET line == InputLines[i]
                acc  == AccessOf(line)
                key  == <<acc.page, acc.reg>>
            IN  (/\ Matches(line)
                 /\ acc.op = "w"
                 /\ acc.args.form \in {"hex", "dec"}
                 /\ key \in DOMAIN reg_map'
                 /\ acc.args.v < 2 ^ DeclaredWidth(reg_map'[key])) =>
                    LET at    == Offset(InputLines, i)
                        group == SubSeq(exported', at + 1, at + GroupSize(line))
                        d1    == RunEmitted(DriverNext, group, Len(group))
                        d2    == reg_write(DriverNext, acc.page, acc.reg, acc.args.v).d
                    IN  \A b \in BytesOf(reg_map'[key]) :
                            read_reg(d1, b[1], b[2]) = read_reg(d2, b[1], b[2])]_vars

(***************************************************************************)
(* Properties of the memory and the trace together                         *)
(***************************************************************************)
\* the index of the last entry of log for the byte at (a1, a2)
LastEntry(log, a1, a2) ==
    CHOOSE i \in 1..Len(log) :
        /\ <<log[i][1], log[i][2]>> = <<a1, a2>>
        /\ \A j \in (i + 1)..Len(log) : <<log[j][1], log[j][2]>> # <<a1, a2>>

\* C27: after every step of the driver the cell of every address of the
\* trace holds the value of the last entry for that address, and
\* clear_write_log empties the trace and changes no cell
TraceMatchesMemory ==
    [][/\ \A i \in 1..Len(write_log') :
              LET a1 == write_log'[i][1]
                  a2 == write_log'[i][2]
              IN  /\ <<a1, a2>> \in DOMAIN i2c_mem'
                  /\ i2c_mem'[<<a1, a2>>] = write_log'[LastEntry(write_log', a1, a2)][3]
       /\ last'.op = "clear_write_log" => (write_log' = <<>> /\ i2c_mem' = i2c_mem)]_vars

\* a byte was written twice with different values; the cell holds the second
TraceMatchesMemoryWitness ==
    /\ Len(write_log) = 2
    /\ <<write_log[1][1], write_log[1][2]>> = <<write_log[2][1], write_log[2][2]>>
    /\ write_log[1][3] # write_log[2][3]
    /\ i2c_mem[<<write_log[2][1], write_log[2][2]>>] = write_log[2][3]

\* C28: every cell and every value of the trace is a byte, whatever
\* integers write_reg, write_bits and reg_write were given
StoredBytesAreBytes ==
    /\ \A c \in DOMAIN i2c_mem : i2c_mem[c] \in 0..255
    /\ \A i \in 1..Len(write_log) : write_log[i][3] \in 0..255

\* write_reg was given -1 and the cell holds 255
StoredBytesAreBytesWitness ==
    /\ last = Call("write_reg", <<16, 0, -1>>, "ok")
    /\ i2c_mem[<<16, 0>>] = 255
    /\ write_log[Len(write_log)] = <<16, 0, 255>>

(***************************************************************************)
(* The exported text read back                                             *)
(***************************************************************************)
\* the byte writes the write lines of a block spell
WritesOf(cmds) ==
    [i \in 1..Len(cmds) |-> <<FromHex(cmds[i].addr) \div 256, FromHex(cmds[i].addr) % 256,
                              FromHex(cmds[i].value)>>]

\* C29: parse_aves of the text exported by generate_aves or
\* generate_aves_per_function gives, for every block of the text in order,
\* the name of its procedure and the byte writes of its lines, comment lines
\* left out; the writes of the last block are the trace of the driver
ExportParseRoundTrip ==
    (last.op \in {"generate_aves", "generate_aves_per_function"} /\ last.err = "ok")
    => LET blocks == ExportedBlocks
           parsed == parse_aves(exported)
       IN  /\ Len(parsed) = Len(blocks)
           /\ \A i \in 1..Len(blocks) :
                 /\ parsed[i][1] = blocks[i][1]
                 /\ parsed[i][2] = WritesOf(blocks[i][2])
           /\ blocks # <<>> => parsed[Len(parsed)][2] = write_log

(***************************************************************************)
(* Failed registration                                                     *)
(***************************************************************************)
Keys(d) == {d[i][1] : i \in 1..Len(d)}

\* C30: a register call that raises leaves the registered names and the open
\* devices as they were, so no name is registered without a device in
\* auto_open mode and the same name can be registered afterwards with a
\* configuration that works
FailedRegisterLeavesManagerUnchanged ==
    [][(last'.op = "register" /\ last'.err # "ok")
       => /\ Keys(manager'.configs) = Keys(manager.configs)
          /\ Keys(manager'.devices) = Keys(manager.devices)
          /\ (~ DictHas(manager.configs, last'.args[1])
                => register(manager', last'.args[1], "mock").err = "ok")]_vars

====
